---- MODULE Spec2Model ----
(***************************************************************************)
(* Model of the persistence core of my-finances-offline: the IndexedDB     *)
(* stores (transactions, categories, accounts, settings) of lib/db.ts, the *)
(* fixed-transaction generator of lib/fixedTransactions.ts and the UI      *)
(* handlers (Dashboard, Reports, TransactionSheet, the selectors and the   *)
(* settings page) that call them.                                          *)
(*                                                                         *)
(* A JavaScript Date is modelled as its UTC timestamp counted in hours. A  *)
(* stored date string "YYYY-MM-DD" is the tuple <<y, m, d>> (m in 1..12).  *)
(* The host's time zone is a fixed offset of tz hours from UTC.            *)
(***************************************************************************)
EXTENDS Integers, Sequences, FiniteSets, TLC

\* ---------------------------------------------------------------- bounds
\* the number of writing handlers the user starts in one behaviour, for each
\* specification (the generator's own writes are not counted)
MaxOpsGen == 2
MaxOpsRef == 4
MaxOpsBal == 3
MaxOpsSet == 2
MaxOpsRec == 1
MaxOpsDel == 4
MaxOpsBud == 3
MaxOpsStop == 4
MaxOpsFail == 3
MaxOpsRetry == 3
MaxOpsBak == 3
MaxOpsRestore == 3
MaxOpsInit == 2
MaxOpsOverlap == 2
MaxOpsRace == 3
\* the largest number of installments typed into the sheet (it takes 2..60)
MaxTimes == 3

\* a value that may be undefined: << >> when it is, <<v>> when it is v
None == << >>
Some(v) == <<v>>

\* the time-zone offsets of the hosts considered, in hours east of UTC
TZOffsets == {0 - 3, 0, 2}

VARIABLES
  tz,            \* host offset from UTC, in hours
  now,           \* the clock new Date() reads (one tick per writing handler)
  nextId,        \* the next value uuidv4() returns
  transactions,  \* object store 'transactions'
  categories,    \* object store 'categories'
  accounts,      \* object store 'accounts'
  settings,      \* record 'user' of object store 'settings', when there is one
  budgets,       \* object store 'budgets' (database mfo-budgets)
  running,       \* the calls of the core that have started and not yet returned
  exported,      \* the backup file handleExportData has written, when there is one
  ui,            \* the mounted page and its React state
  pc,            \* "idle", or "loadData" when an effect has scheduled loadData
  budget,        \* the writing handlers the user may still start
  lastCall,      \* the last call of the core the handlers made
  lastResult,    \* what that call returned
  lastRead       \* the last getTransactionsByMonth a view's loadData made

vars == <<tz, now, nextId, transactions, categories, accounts, settings,
          budgets, running, exported, ui, pc, budget, lastCall, lastResult, lastRead>>

\* ------------------------------------------------------- calendar (Date)
\* days since 1970-01-01 of the proleptic Gregorian date y-m-d, m in 1..12
DaysFromCivil(y, m, d) ==
  LET yy  == IF m <= 2 THEN y - 1 ELSE y
      era == yy \div 400
      yoe == yy - era * 400
      mp  == IF m > 2 THEN m - 3 ELSE m + 9
      doy == (153 * mp + 2) \div 5 + d - 1
      doe == yoe * 365 + yoe \div 4 - yoe \div 100 + doy
  IN  era * 146097 + doe - 719468

\* the date <<y, m, d>> of a day number
CivilFromDays(z) ==
  LET zz  == z + 719468
      era == zz \div 146097
      doe == zz - era * 146097
      yoe == (doe - doe \div 1460 + doe \div 36524 - doe \div 146096) \div 365
      doy == doe - (365 * yoe + yoe \div 4 - yoe \div 100)
      mp  == (5 * doy + 2) \div 153
      d   == doy - (153 * mp + 2) \div 5 + 1
      m   == IF mp < 10 THEN mp + 3 ELSE mp - 9
      y   == yoe + era * 400 + (IF m <= 2 THEN 1 ELSE 0)
  IN  <<y, m, d>>

\* MakeDay of ECMAScript: month0 may lie outside 0..11 and day outside the
\* month; both carry over
MakeDay(y, month0, day) ==
  DaysFromCivil(y + month0 \div 12, (month0 % 12) + 1, 1) + day - 1

\* new Date("YYYY-MM-DD"): a date-only string is parsed as UTC midnight
DateParse(s) == DaysFromCivil(s[1], s[2], s[3]) * 24

\* the local calendar fields of timestamp t on a host at offset off
LocalCivil(t, off) == CivilFromDays((t + off) \div 24)
LocalHour(t, off) == (t + off) % 24
getFullYear(t, off) == LocalCivil(t, off)[1]
getMonth(t, off) == LocalCivil(t, off)[2] - 1
getDate(t, off) == LocalCivil(t, off)[3]

\* new Date(year, month, day): local midnight of that day
DateLocal(y, month0, day, off) == MakeDay(y, month0, day) * 24 - off

\* Date.prototype.setDate / setMonth / setFullYear: local fields, local hour kept
setDate(t, day, off) ==
  MakeDay(getFullYear(t, off), getMonth(t, off), day) * 24
    + LocalHour(t, off) - off
setMonth(t, month0, off) ==
  MakeDay(getFullYear(t, off), month0, getDate(t, off)) * 24
    + LocalHour(t, off) - off
setFullYear(t, y, off) ==
  MakeDay(y, getMonth(t, off), getDate(t, off)) * 24
    + LocalHour(t, off) - off

\* date.toISOString().split('T')[0]: the UTC date of the timestamp
toISODate(t) == CivilFromDays(t \div 24)


\* ------------------------------------------------------ records and stores
\* {...a, ...b}: the properties of b override those of a
Merge(a, b) ==
  [k \in (DOMAIN a) \cup (DOMAIN b) |-> IF k \in DOMAIN b THEN b[k] ELSE a[k]]

\* interface Transaction; a property that is absent reads as undefined
TxFields ==
  {"id", "type", "value", "currency", "description", "categoryId", "accountId",
   "date", "isCompleted", "completedAt", "isFixed", "isRepeating", "repeatConfig",
   "repeatIndex", "repeatTotal", "parentRepeatId", "observation", "tags",
   "createdAt", "updatedAt"}
Stored(r) == [k \in TxFields |-> IF k \in DOMAIN r THEN r[k] ELSE None]

\* db.put(store, rec): insert, or overwrite the record of the same key
put(store, rec) == {r \in store : r.id # rec.id} \cup {rec}
\* db.get(store, id)
get(store, id) == IF \E r \in store : r.id = id
                  THEN Some(CHOOSE r \in store : r.id = id) ELSE None
\* db.getAll(store): the records in key order
RECURSIVE getAll(_)
getAll(store) ==
  IF store = {} THEN <<>>
  ELSE LET first == CHOOSE r \in store : \A q \in store : r.id <= q.id
       IN  <<first>> \o getAll(store \ {first})

RECURSIVE putAll(_, _)
putAll(store, recs) ==
  IF recs = <<>> THEN store ELSE putAll(put(store, Head(recs)), Tail(recs))

\* ------------------------------------------------------------ lib/db.ts
defaultIncomeCategories ==
  << [type |-> "income", name |-> "noCategory", isDefault |-> TRUE, isSystem |-> TRUE],
     [type |-> "income", name |-> "salary", isDefault |-> FALSE, isSystem |-> TRUE] >>
defaultExpenseCategories ==
  << [type |-> "expense", name |-> "noCategory", isDefault |-> TRUE, isSystem |-> TRUE],
     [type |-> "expense", name |-> "food", isDefault |-> FALSE, isSystem |-> TRUE] >>

detectUserCurrency == "BRL"

\* the four object stores as one value
DB(txs, cats, accs, st) ==
  [transactions |-> txs, categories |-> cats, accounts |-> accs, settings |-> st]

\* the number of uuidv4() calls of initializeDB when it seeds
SeedIds == 1 + Len(defaultIncomeCategories) + Len(defaultExpenseCategories)

initializeDB(db, id0, t) ==
  IF db.settings # None THEN db
  ELSE
    LET defaultSettings ==
          [id |-> "user", defaultCurrency |-> detectUserCurrency,
           processedFixedMonths |-> <<>>, createdAt |-> t, updatedAt |-> t]
        defaultAccount ==
          [id |-> id0, name |-> "defaultAccount", isDefault |-> TRUE,
           createdAt |-> t, updatedAt |-> t]
        seeds == defaultIncomeCategories \o defaultExpenseCategories
        seeded == [i \in 1..Len(seeds) |->
                     Merge(seeds[i], [id |-> id0 + i, createdAt |-> t, updatedAt |-> t])]
    IN  DB(db.transactions, putAll(db.categories, seeded),
           put(db.accounts, defaultAccount), Some(defaultSettings))

addTransaction(draft, id, t) ==
  Stored(Merge(draft, [id |-> id, createdAt |-> t, updatedAt |-> t]))

\* the date of installment i (0-based) of a recurring transaction
installmentDate(date, period, customDays, i, off) ==
  LET baseDate == DateParse(date)
      d == CASE period = "daily"   -> setDate(baseDate, getDate(baseDate, off) + i, off)
             [] period = "weekly"  -> setDate(baseDate, getDate(baseDate, off) + i * 7, off)
             [] period = "monthly" -> setMonth(baseDate, getMonth(baseDate, off) + i, off)
             [] period = "yearly"  -> setFullYear(baseDate, getFullYear(baseDate, off) + i, off)
             [] period = "custom"  ->
                  setDate(baseDate,
                          getDate(baseDate, off)
                            + i * (IF customDays \in {None, Some(0)} THEN 30
                                   ELSE customDays[1]),
                          off)
             [] OTHER -> baseDate
  IN  toISODate(d)

\* the list addRecurringTransaction writes and returns; id0 is the first uuid it
\* draws (addRecurringTransactionFromZero: a variant that numbers from 0)
addRecurringTransactionFromZero(draft, id0, t, off) ==
  IF ~draft.isRepeating \/ draft.repeatConfig = None
  THEN << addTransaction(draft, id0, t) >>
  ELSE
    LET cfg == draft.repeatConfig[1]
    IN  [k \in 1..cfg.times |->
           Stored(Merge(draft,
             [id |-> id0 + k,
              date |-> installmentDate(draft.date, cfg.period, None, k - 1, off),
              parentRepeatId |-> Some(id0),
              repeatIndex |-> Some(k - 1),
              repeatTotal |-> Some(cfg.times),
              createdAt |-> t, updatedAt |-> t]))]
addRecurringTransaction(draft, id0, t, off) ==
  IF ~draft.isRepeating \/ draft.repeatConfig = None
  THEN << addTransaction(draft, id0, t) >>
  ELSE
    LET parentId == id0
        cfg == draft.repeatConfig[1]
        customDays == IF "customDays" \in DOMAIN cfg THEN Some(cfg.customDays) ELSE None
    IN  [k \in 1..cfg.times |->
           Stored(Merge(draft,
             [id |-> id0 + k,
              date |-> installmentDate(draft.date, cfg.period, customDays, k - 1, off),
              parentRepeatId |-> Some(parentId),
              repeatIndex |-> Some(k),
              repeatTotal |-> Some(cfg.times),
              createdAt |-> t, updatedAt |-> t]))]

\* the uuids addRecurringTransaction draws
recurringIds(draft) ==
  IF ~draft.isRepeating \/ draft.repeatConfig = None THEN 1
  ELSE 1 + draft.repeatConfig[1].times

\* the store after updateTransaction(id, updates), and what it returns
\* (updateTransactionStale: a variant that leaves updatedAt alone)
updateTransactionStale(txs, id, updates, t) ==
  LET existing == get(txs, id)
  IN  IF existing = None THEN [store |-> txs, result |-> None]
      ELSE LET updated == Stored(Merge(existing[1], updates))
           IN  [store |-> put(txs, updated), result |-> Some(updated)]
updateTransaction(txs, id, updates, t) ==
  LET existing == get(txs, id)
  IN  IF existing = None THEN [store |-> txs, result |-> None]
      ELSE LET updated == Stored(Merge(Merge(existing[1], updates), [updatedAt |-> t]))
           IN  [store |-> put(txs, updated), result |-> Some(updated)]

\* the store after deletePendingRecurringTransactions(parentRepeatId), and the
\* number it returns (deletePendingRecurringTransactionsAll: a variant that
\* deletes the whole group)
deletePendingRecurringTransactionsAll(txs, parentRepeatId) ==
  LET toDelete == {tx \in txs : tx.parentRepeatId = Some(parentRepeatId)}
  IN  [store |-> txs \ toDelete, result |-> Cardinality(toDelete)]
deletePendingRecurringTransactions(txs, parentRepeatId) ==
  LET toDelete == {tx \in txs : /\ tx.parentRepeatId = Some(parentRepeatId)
                                /\ ~tx.isCompleted}
  IN  [store |-> txs \ toDelete, result |-> Cardinality(toDelete)]

getTransactionsByMonth(txs, year, month0, off) ==
  {tx \in txs : /\ getFullYear(DateParse(tx.date), off) = year
                /\ getMonth(DateParse(tx.date), off) = month0}

\* a <= b on YYYY-MM-DD strings: zero-padded fields, so character order is
\* field order
StringLE(a, b) ==
  \/ a[1] < b[1]
  \/ a[1] = b[1] /\ a[2] < b[2]
  \/ a[1] = b[1] /\ a[2] = b[2] /\ a[3] <= b[3]

getTransactionsByDateRange(txs, startDate, endDate) ==
  {tx \in txs : StringLE(startDate, tx.date) /\ StringLE(tx.date, endDate)}

\* the transactions store after the loop of deleteCategory
RECURSIVE moveCategory(_, _, _, _, _)
moveCategory(store, list, id, moveToId, t) ==
  IF list = <<>> THEN store
  ELSE LET tx == Head(list)
       IN  moveCategory(
             IF tx.categoryId = id
             THEN put(store, [tx EXCEPT !.categoryId = moveToId, !.updatedAt = t])
             ELSE store,
             Tail(list), id, moveToId, t)

\* deleteCategory(id, moveToId): the stores after the call
\* (deleteCategoryOnly: a variant that leaves the transactions alone)
deleteCategoryOnly(db, id, moveToId, t) ==
  DB(db.transactions, {c \in db.categories : c.id # id}, db.accounts, db.settings)
deleteCategory(db, id, moveToId, t) ==
  DB(moveCategory(db.transactions, getAll(db.transactions), id, moveToId, t),
     {c \in db.categories : c.id # id}, db.accounts, db.settings)

RECURSIVE moveAccount(_, _, _, _, _)
moveAccount(store, list, id, moveToId, t) ==
  IF list = <<>> THEN store
  ELSE LET tx == Head(list)
       IN  moveAccount(
             IF tx.accountId = id
             THEN put(store, [tx EXCEPT !.accountId = moveToId, !.updatedAt = t])
             ELSE store,
             Tail(list), id, moveToId, t)

deleteAccount(db, id, moveToId, t) ==
  DB(moveAccount(db.transactions, getAll(db.transactions), id, moveToId, t),
     db.categories, {a \in db.accounts : a.id # id}, db.settings)

addAccount(account, id, t) ==
  Merge(account, [id |-> id, createdAt |-> t, updatedAt |-> t])

\* the accounts store after updateAccount(id, updates)
updateAccount(accs, id, updates, t) ==
  LET existing == get(accs, id)
  IN  IF existing = None THEN accs
      ELSE put(accs, Merge(Merge(existing[1], updates), [updatedAt |-> t]))

\* the settings record after updateSettings(updates)
\* (updateSettingsFresh: a variant that empties processedFixedMonths)
updateSettingsFresh(st, updates, t) ==
  IF st = None THEN None
  ELSE Some(Merge(Merge(st[1], updates),
                  [processedFixedMonths |-> << >>, updatedAt |-> t]))
updateSettings(st, updates, t) ==
  IF st = None THEN None ELSE Some(Merge(Merge(st[1], updates), [updatedAt |-> t]))

deleteAllData(db, id0, t) == initializeDB(DB({}, {}, {}, None), id0, t)

\* one turn of the loop of getAccountBalances
\* (balanceStepPending: a variant that counts pending transactions too)
balanceStepPending(balances, tx) ==
  LET b1 == IF tx.accountId \in DOMAIN balances THEN balances
            ELSE balances @@ (tx.accountId :> << >>)
      old == IF tx.currency \in DOMAIN b1[tx.accountId]
             THEN b1[tx.accountId][tx.currency] ELSE 0
      new == IF tx.type = "income" THEN old + tx.value ELSE old - tx.value
      cur == [c \in (DOMAIN b1[tx.accountId]) \cup {tx.currency} |->
                IF c = tx.currency THEN new ELSE b1[tx.accountId][c]]
  IN  [a \in DOMAIN b1 |-> IF a = tx.accountId THEN cur ELSE b1[a]]
balanceStep(balances, tx) ==
  IF ~tx.isCompleted THEN balances
  ELSE
    LET b1 == IF tx.accountId \in DOMAIN balances THEN balances
              ELSE balances @@ (tx.accountId :> << >>)
        old == IF tx.currency \in DOMAIN b1[tx.accountId]
               THEN b1[tx.accountId][tx.currency] ELSE 0
        new == IF tx.type = "income" THEN old + tx.value ELSE old - tx.value
        cur == [c \in (DOMAIN b1[tx.accountId]) \cup {tx.currency} |->
                  IF c = tx.currency THEN new ELSE b1[tx.accountId][c]]
    IN  [a \in DOMAIN b1 |-> IF a = tx.accountId THEN cur ELSE b1[a]]

RECURSIVE balanceLoop(_, _)
balanceLoop(balances, list) ==
  IF list = <<>> THEN balances
  ELSE balanceLoop(balanceStep(balances, Head(list)), Tail(list))

getAccountBalances(txs, accs) ==
  balanceLoop([a \in {acc.id : acc \in accs} |-> << >>], getAll(txs))

\* -------------------------------------------------- lib/fixedTransactions.ts
\* `${year}-${String(month + 1).padStart(2, '0')}`
getMonthKey(year, month0) == <<year, month0 + 1>>

includes(list, x) == \E i \in 1..Len(list) : list[i] = x

getFixedTransactionsFromMonth(txs, year, month0, off) ==
  {tx \in getTransactionsByMonth(txs, year, month0, off) : tx.isFixed}

\* (isMonthProcessedNever: a variant that never finds the key)
isMonthProcessedNever(st, year, month0) == FALSE
isMonthProcessed(st, year, month0) ==
  IF st = None THEN FALSE
  ELSE includes(st[1].processedFixedMonths, getMonthKey(year, month0))

\* (markMonthAsProcessedNot: a variant that records nothing)
markMonthAsProcessedNot(st, year, month0, t) == st
markMonthAsProcessed(st, year, month0, t) ==
  IF st = None THEN st
  ELSE IF ~includes(st[1].processedFixedMonths, getMonthKey(year, month0))
  THEN Some([st[1] EXCEPT !.processedFixedMonths = Append(@, getMonthKey(year, month0)),
                         !.updatedAt = t])
  ELSE st

\* the date generateFixedTransactionsForMonth gives the copy of a transaction
fixedDate(date, year, month0, off) ==
  LET originalDate == DateParse(date)
      newDate == DateLocal(year, month0, getDate(originalDate, off), off)
      clamped == setDate(setMonth(setDate(newDate, 0, off), month0 + 1, off), 0, off)
  IN  toISODate(IF getMonth(newDate, off) # month0 THEN clamped ELSE newDate)

\* the draft generateFixedTransactionsForMonth hands to addTransaction
fixedDraft(tx, year, month0, off) ==
  [type |-> tx.type, value |-> tx.value, currency |-> tx.currency,
   description |-> tx.description, categoryId |-> tx.categoryId,
   accountId |-> tx.accountId, date |-> fixedDate(tx.date, year, month0, off),
   isCompleted |-> FALSE, isFixed |-> TRUE, isRepeating |-> FALSE,
   observation |-> tx.observation, tags |-> tx.tags]

\* generateFixedTransactionsForMonth(year, month): the stores after the call,
\* its return value and the number of uuids it drew
generateFixedTransactionsForMonth(txs, st, year, month0, id0, t, off) ==
  IF isMonthProcessed(st, year, month0)
  THEN [transactions |-> txs, settings |-> st, result |-> 0, ids |-> 0]
  ELSE
    LET prevMonth == IF month0 - 1 < 0 THEN 11 ELSE month0 - 1
        prevYear == IF month0 - 1 < 0 THEN year - 1 ELSE year
        previousFixedTransactions ==
          getAll(getFixedTransactionsFromMonth(txs, prevYear, prevMonth, off))
        created == [k \in 1..Len(previousFixedTransactions) |->
                      addTransaction(
                        fixedDraft(previousFixedTransactions[k], year, month0, off),
                        id0 + k - 1, t)]
    IN  [transactions |-> putAll(txs, created),
         settings |-> markMonthAsProcessed(st, year, month0, t),
         result |-> Len(created), ids |-> Len(created)]

\* ---------------------------------------------------------- lib/budgets.ts
\* all.find(b => b.categoryId === categoryId && b.month === monthKey): the
\* first match in key order
findBudget(store, categoryId, monthKey) ==
  LET matches == {b \in store : b.categoryId = categoryId /\ b.month = monthKey}
  IN  IF matches = {} THEN None ELSE Some(Head(getAll(matches)))

\* the record setBudget puts, given what its read found; id is the uuid it
\* draws when it found none, t the time it took when it was called
setBudgetRecord(existing, categoryId, amount, currency, monthKey, id, t) ==
  IF existing # None
  THEN Merge(existing[1], [amount |-> amount, currency |-> currency, updatedAt |-> t])
  ELSE [id |-> id, categoryId |-> categoryId, amount |-> amount,
        currency |-> currency, month |-> monthKey, createdAt |-> t, updatedAt |-> t]

\* the store after one call of setBudget that nothing interleaves with
setBudget(store, categoryId, amount, currency, year, month0, id, t) ==
  LET monthKey == getMonthKey(year, month0)
  IN  put(store, setBudgetRecord(findBudget(store, categoryId, monthKey),
                                 categoryId, amount, currency, monthKey, id, t))

getBudgetsByMonth(store, year, month0) ==
  {b \in store : b.month = getMonthKey(year, month0)}

deleteBudget(store, id) == {b \in store : b.id # id}

\* the loop of copyBudgetsToMonth over the budgets of the month it copies;
\* s.id is the next uuid
RECURSIVE copyLoop(_, _, _, _, _)
copyLoop(s, list, toYear, toMonth, t) ==
  IF list = <<>> THEN s
  ELSE LET b == Head(list)
           fresh == findBudget(s.store, b.categoryId, getMonthKey(toYear, toMonth)) = None
       IN  copyLoop([store |-> setBudget(s.store, b.categoryId, b.amount, b.currency,
                                         toYear, toMonth, s.id, t),
                     id |-> IF fresh THEN s.id + 1 ELSE s.id],
                    Tail(list), toYear, toMonth, t)

copyBudgetsToMonth(store, fromYear, fromMonth, toYear, toMonth, id0, t) ==
  copyLoop([store |-> store, id |-> id0],
           getAll(getBudgetsByMonth(store, fromYear, fromMonth)),
           toYear, toMonth, t)

\* --------------------------------------------------------------- the pages
\* the day the app runs, and new Date() on that day (noon UTC)
Today == <<2023, 12, 15>>
TodayDate == DateParse(Today) + 12

\* how far the month pickers are followed: from the current month to
\* MaxMonthsAhead months after it
MaxMonthsAhead == 2

MonthIndex(t, off) == getFullYear(t, off) * 12 + getMonth(t, off)

\* what the sheet's form can hold
Currencies == {"BRL", "USD"}
\* today, the date a new sheet shows, and three dates picked in its calendar
FormDates == {Today, <<2023, 12, 1>>, <<2023, 12, 31>>, <<2024, 1, 31>>}
Form(value, currency, description, isCompleted, isFixed, isRepeating, times) ==
  [value |-> value, currency |-> currency, description |-> description,
   isCompleted |-> isCompleted, isFixed |-> isFixed, isRepeating |-> isRepeating,
   times |-> times, period |-> "monthly",
   observation |-> IF isFixed THEN "due" ELSE "",
   tags |-> IF isFixed THEN <<"home">> ELSE << >>]
Pay == Form(1000, "BRL", "pay", TRUE, FALSE, FALSE, 2)
Rent == Form(300, "BRL", "rent", TRUE, TRUE, FALSE, 2)
Bill == Form(300, "BRL", "bill", FALSE, FALSE, FALSE, 2)
Course(times) == Form(300, "USD", "course", FALSE, FALSE, TRUE, times)
Forms == {Pay, Rent, Bill} \cup {Course(n) : n \in 2..MaxTimes}
\* the period selector of the sheet
Periods == {"daily", "weekly", "monthly", "yearly"}
Plan(period, times) == [Course(times) EXCEPT !.period = period]

\* a page just mounted: App renders one page per tab, so its state starts afresh
Mount(tab, st) ==
  [tab |-> tab,
   currentDate |-> TodayDate,
   sheet |-> None,
   settings |-> IF tab = "settings" THEN st ELSE None]

\* TransactionSheet.handleSave: the transactionData built from the form
transactionData(sheet, form, date, t) ==
  [type |-> sheet.type, value |-> form.value, currency |-> form.currency,
   description |-> form.description, categoryId |-> sheet.category,
   accountId |-> sheet.account, date |-> date, isCompleted |-> form.isCompleted,
   completedAt |-> IF form.isCompleted THEN Some(t) ELSE None,
   isFixed |-> form.isFixed, isRepeating |-> form.isRepeating,
   repeatConfig |-> IF form.isRepeating
                    THEN Some([times |-> form.times, period |-> form.period])
                    ELSE None,
   observation |-> form.observation, tags |-> form.tags]

defaultCategoryId(cats, type) ==
  IF \E c \in cats : c.type = type /\ c.isDefault
  THEN Some((CHOOSE c \in cats : c.type = type /\ c.isDefault).id) ELSE None
defaultAccountId(accs) ==
  IF \E a \in accs : a.isDefault
  THEN Some((CHOOSE a \in accs : a.isDefault).id) ELSE None

\* a call of the core: its name, its numeric arguments and its draft, if any
Call(op, a, b, draft) == [op |-> op, a |-> a, b |-> b, draft |-> draft]
\* what a call returned: a count, or the records it returned
Result(count, list) == [count |-> count, list |-> list]

\* ----------------------------------------------------------------- actions
\* App: initializeDB() has completed and Dashboard is mounted, its effect pending
InitWith(ops) ==
  LET db == initializeDB(DB({}, {}, {}, None), 1, 0)
  IN  /\ tz \in TZOffsets
      /\ now = 1
      /\ nextId = 1 + SeedIds
      /\ transactions = db.transactions
      /\ categories = db.categories
      /\ accounts = db.accounts
      /\ settings = db.settings
      /\ budgets = {}
      /\ running = {}
      /\ exported = None
      /\ ui = Mount("dashboard", db.settings)
      /\ pc = "loadData"
      /\ budget = ops
      /\ lastCall = Call("initializeDB", 0, 0, None)
      /\ lastResult = Result(0, << >>)
      /\ lastRead = None

\* Dashboard.loadData: generate, then read the month
DashboardLoadData ==
  /\ pc = "loadData" /\ ui.tab = "dashboard"
  /\ LET year == getFullYear(ui.currentDate, tz)
         month0 == getMonth(ui.currentDate, tz)
         g == generateFixedTransactionsForMonth(transactions, settings, year, month0,
                                                nextId, now, tz)
     IN  /\ transactions' = g.transactions
         /\ settings' = g.settings
         /\ nextId' = nextId + g.ids
         /\ now' = IF g.settings # settings THEN now + 1 ELSE now
         /\ lastCall' = Call("generateFixedTransactionsForMonth", year, month0, None)
         /\ lastResult' = Result(g.result, << >>)
         /\ lastRead' = Some([view |-> "dashboard", year |-> year, month |-> month0,
                         processed |-> isMonthProcessed(g.settings, year, month0)])
  /\ pc' = "idle"
  /\ UNCHANGED <<tz, exported, budgets, running, budget, categories, accounts, ui>>

\* Reports.loadData: read the month
ReportsLoadData ==
  /\ pc = "loadData" /\ ui.tab = "reports"
  /\ LET year == getFullYear(ui.currentDate, tz)
         month0 == getMonth(ui.currentDate, tz)
     IN  /\ lastRead' = Some([view |-> "reports", year |-> year, month |-> month0,
                         processed |-> isMonthProcessed(settings, year, month0)])
  /\ pc' = "idle"
  /\ UNCHANGED <<tz, exported, budgets, running,
                 budget, now, nextId, transactions, categories, accounts, settings, ui,
                 lastCall, lastResult>>

\* MonthPicker.goToPreviousMonth / goToNextMonth; the page's effect then loads
GoToMonth(delta) ==
  /\ pc = "idle" /\ ui.tab \in {"dashboard", "reports"} /\ ui.sheet = None
  /\ LET newDate == setMonth(ui.currentDate, getMonth(ui.currentDate, tz) + delta, tz)
     IN  /\ MonthIndex(newDate, tz) >= MonthIndex(TodayDate, tz)
         /\ MonthIndex(newDate, tz) <= MonthIndex(TodayDate, tz) + MaxMonthsAhead
         /\ ui' = [ui EXCEPT !.currentDate = newDate]
  /\ pc' = "loadData"
  /\ UNCHANGED <<tz, exported, budgets, running,
                 budget, now, nextId, transactions, categories, accounts, settings,
                 lastCall, lastResult, lastRead>>
goToPreviousMonth == GoToMonth(0 - 1)
goToNextMonth == GoToMonth(1)

\* BottomNav: another page is mounted
onTabChange(tab) ==
  /\ pc = "idle" /\ ui.sheet = None /\ tab # ui.tab
  /\ ui' = Mount(tab, settings)
  /\ pc' = IF tab = "settings" THEN "idle" ELSE "loadData"
  /\ UNCHANGED <<tz, exported, budgets, running,
                 budget, now, nextId, transactions, categories, accounts, settings,
                 lastCall, lastResult, lastRead>>

\* Dashboard: the + button opens the sheet; TransactionSheet.loadDefaults
openSheet(type) ==
  /\ pc = "idle" /\ ui.tab = "dashboard" /\ ui.sheet = None
  /\ ui' = [ui EXCEPT !.sheet =
              Some([type |-> type,
                    category |-> defaultCategoryId(categories, type),
                    account |-> defaultAccountId(accounts),
                    edit |-> None])]
  /\ UNCHANGED <<tz, exported, budgets, running,
                 budget, now, nextId, transactions, categories, accounts, settings,
                 pc, lastCall, lastResult, lastRead>>

\* Dashboard.handleTransactionClick: the sheet opens on a transaction of the
\* month; loadDefaults and loadTransactionRefs both set the category and the
\* account, in the order their reads complete
handleTransactionClick(tx, ownCategory, ownAccount) ==
  /\ pc = "idle" /\ ui.tab = "dashboard" /\ ui.sheet = None
  /\ tx \in getTransactionsByMonth(transactions, getFullYear(ui.currentDate, tz),
                                   getMonth(ui.currentDate, tz), tz)
  /\ ownCategory => \E c \in categories : c.id = tx.categoryId /\ c.type = tx.type
  /\ ownAccount => \E a \in accounts : a.id = tx.accountId
  /\ ui' = [ui EXCEPT !.sheet =
              Some([type |-> tx.type,
                    category |-> IF ownCategory THEN Some(tx.categoryId)
                                 ELSE defaultCategoryId(categories, tx.type),
                    account |-> IF ownAccount THEN Some(tx.accountId)
                                ELSE defaultAccountId(accounts),
                    edit |-> Some(tx.id)])]
  /\ UNCHANGED <<tz, exported, budgets, running,
                 budget, now, nextId, transactions, categories, accounts, settings,
                 pc, lastCall, lastResult, lastRead>>

\* CategorySelector.handleSelect / AccountSelector: onSelect
selectCategory(c) ==
  /\ pc = "idle" /\ ui.sheet # None
  /\ c \in categories /\ c.type = ui.sheet[1].type
  /\ ui.sheet[1].category # Some(c.id)
  /\ ui' = [ui EXCEPT !.sheet = Some([ui.sheet[1] EXCEPT !.category = Some(c.id)])]
  /\ UNCHANGED <<tz, exported, budgets, running,
                 budget, now, nextId, transactions, categories, accounts, settings,
                 pc, lastCall, lastResult, lastRead>>

selectAccount(a) ==
  /\ pc = "idle" /\ ui.sheet # None
  /\ a \in accounts
  /\ ui.sheet[1].account # Some(a.id)
  /\ ui' = [ui EXCEPT !.sheet = Some([ui.sheet[1] EXCEPT !.account = Some(a.id)])]
  /\ UNCHANGED <<tz, exported, budgets, running,
                 budget, now, nextId, transactions, categories, accounts, settings,
                 pc, lastCall, lastResult, lastRead>>

\* TransactionSheet.handleClose without saving
closeSheet ==
  /\ pc = "idle" /\ ui.sheet # None
  /\ ui' = [ui EXCEPT !.sheet = None]
  /\ UNCHANGED <<tz, exported, budgets, running,
                 budget, now, nextId, transactions, categories, accounts, settings,
                 pc, lastCall, lastResult, lastRead>>

\* db.ts deleteTransaction and deleteRecurringTransactions
deleteTransaction(txs, id) == {t \in txs : t.id # id}
deleteRecurringTransactions(txs, parentRepeatId) ==
  {t \in txs : t.parentRepeatId # Some(parentRepeatId)}

\* TransactionSheet.handleDelete on the transaction the sheet edits, then
\* handleClose and Dashboard's onSave
TransactionSheet_handleDelete(deleteMode) ==
  /\ pc = "idle" /\ ui.sheet # None /\ budget > 0
  /\ ui.sheet[1].edit # None
  /\ LET id == ui.sheet[1].edit[1]
         editTransaction == get(transactions, id)
     IN  transactions' =
           IF /\ deleteMode = "all" /\ editTransaction # None
              /\ editTransaction[1].parentRepeatId # None
           THEN deleteRecurringTransactions(transactions,
                                            editTransaction[1].parentRepeatId[1])
           ELSE deleteTransaction(transactions, id)
  /\ now' = now + 1
  /\ budget' = budget - 1
  /\ ui' = [ui EXCEPT !.sheet = None]
  /\ pc' = "loadData"
  /\ lastCall' = Call("deleteTransaction", ui.sheet[1].edit[1], 0, None)
  /\ lastResult' = Result(0, << >>)
  /\ UNCHANGED <<tz, exported, budgets, running, nextId, categories, accounts,
                 settings, lastRead>>

\* TransactionSheet.handleSave, then handleClose and Dashboard's onSave
handleSave(form, date) ==
  /\ pc = "idle" /\ ui.sheet # None /\ budget > 0
  /\ LET sheet == ui.sheet[1]
     IN  /\ form.value # 0 /\ sheet.category # None /\ sheet.account # None
         /\ LET data == transactionData(
                          [sheet EXCEPT !.category = sheet.category[1],
                                        !.account = sheet.account[1]],
                          form, date, now)
            IN  IF sheet.edit # None
                THEN LET u == updateTransaction(transactions, sheet.edit[1], data, now)
                     IN  /\ transactions' = u.store
                         /\ nextId' = nextId
                         /\ lastCall' = Call("updateTransaction", sheet.edit[1], 0,
                                             Some(data))
                         /\ lastResult' = Result(0, u.result)
                ELSE IF form.isRepeating
                THEN LET list == addRecurringTransaction(data, nextId, now, tz)
                     IN  /\ TRUE
                         /\ transactions' = putAll(transactions, list)
                         /\ nextId' = nextId + recurringIds(data)
                         /\ lastCall' = Call("addRecurringTransaction", 0, 0, Some(data))
                         /\ lastResult' = Result(Len(list), list)
                ELSE LET tx == addTransaction(data, nextId, now)
                     IN  /\ TRUE
                         /\ transactions' = put(transactions, tx)
                         /\ nextId' = nextId + 1
                         /\ lastCall' = Call("addTransaction", 0, 0, Some(data))
                         /\ lastResult' = Result(1, <<tx>>)
  /\ now' = now + 1
  /\ budget' = budget - 1
  /\ ui' = [ui EXCEPT !.sheet = None]
  /\ pc' = "loadData"
  /\ UNCHANGED <<tz, exported, budgets, running, categories, accounts, settings, lastRead>>

\* CategorySelector.handleDelete (in the sheet) and CategoryManagement.handleDelete
\* (in the settings page): a category that is not the default one is deleted,
\* its transactions move to another category of the list shown
handleDeleteCategory(id, moveToId) ==
  /\ pc = "idle" /\ budget > 0
  /\ \E c \in categories, m \in categories :
       /\ c.id = id /\ m.id = moveToId /\ ~c.isDefault
       /\ m.type = c.type /\ m.id # c.id
       /\ \/ ui.tab = "settings"
          \/ ui.tab = "dashboard" /\ ui.sheet # None /\ ui.sheet[1].type = c.type
  /\ LET db == deleteCategory(DB(transactions, categories, accounts, settings),
                              id, moveToId, now)
     IN  /\ transactions' = db.transactions
         /\ categories' = db.categories
  /\ now' = now + 1
  /\ budget' = budget - 1
  /\ lastCall' = Call("deleteCategory", id, moveToId, None)
  /\ lastResult' = Result(0, << >>)
  /\ UNCHANGED <<tz, exported, budgets, running, nextId, accounts, settings, ui, pc, lastRead>>

\* AccountSelector.handleSaveAccount: a new account
handleSaveAccount(name) ==
  /\ pc = "idle" /\ budget > 0
  /\ ui.tab = "dashboard" /\ ui.sheet # None
  /\ \A a \in accounts : a.name # name
  /\ accounts' = put(accounts, addAccount([name |-> name, isDefault |-> FALSE],
                                          nextId, now))
  /\ nextId' = nextId + 1
  /\ now' = now + 1
  /\ budget' = budget - 1
  /\ lastCall' = Call("addAccount", 0, 0, None)
  /\ lastResult' = Result(0, << >>)
  /\ UNCHANGED <<tz, exported, budgets, running,
                 transactions, categories, settings, ui, pc, lastRead>>

\* AccountManagement.handleSave with an account in the edit form (the pencil is
\* shown on every account of the list, the default one included)
AccountManagement_handleSave(id, formName) ==
  /\ pc = "idle" /\ budget > 0
  /\ ui.tab = "settings"
  /\ \E a \in accounts : a.id = id /\ a.name # formName
  /\ accounts' = updateAccount(accounts, id, [name |-> formName], now)
  /\ now' = now + 1
  /\ budget' = budget - 1
  /\ lastCall' = Call("updateAccount", id, 0, None)
  /\ lastResult' = Result(0, << >>)
  /\ UNCHANGED <<tz, exported, budgets, running,
                 nextId, transactions, categories, settings, ui, pc,
                 lastRead>>

\* a call of deletePendingRecurringTransactions on a group of the store (the
\* function is exported by the core; no component calls it)
callDeletePendingRecurringTransactions(parentRepeatId) ==
  /\ pc = "idle" /\ budget > 0
  /\ \E tx \in transactions : tx.parentRepeatId = Some(parentRepeatId)
  /\ LET d == deletePendingRecurringTransactions(transactions, parentRepeatId)
     IN  /\ transactions' = d.store
         /\ lastResult' = Result(d.result, << >>)
  /\ now' = now + 1
  /\ budget' = budget - 1
  /\ lastCall' = Call("deletePendingRecurringTransactions", parentRepeatId, 0, None)
  /\ UNCHANGED <<tz, exported, budgets, running, nextId, categories, accounts, settings, ui, pc,
                 lastRead>>

\* AccountSelector.handleDelete
handleDeleteAccount(id, moveToId) ==
  /\ pc = "idle" /\ budget > 0
  /\ ui.tab = "dashboard" /\ ui.sheet # None
  /\ \E a \in accounts, m \in accounts :
       a.id = id /\ m.id = moveToId /\ ~a.isDefault /\ m.id # a.id
  /\ LET db == deleteAccount(DB(transactions, categories, accounts, settings),
                             id, moveToId, now)
     IN  /\ transactions' = db.transactions
         /\ accounts' = db.accounts
  /\ now' = now + 1
  /\ budget' = budget - 1
  /\ lastCall' = Call("deleteAccount", id, moveToId, None)
  /\ lastResult' = Result(0, << >>)
  /\ UNCHANGED <<tz, exported, budgets, running, nextId, categories, settings, ui, pc, lastRead>>

\* SettingsPage.handleCurrencyChange: updateSettings with the page's copy
handleCurrencyChange(currencyCode) ==
  /\ pc = "idle" /\ budget > 0
  /\ ui.tab = "settings" /\ ui.settings # None
  /\ ui.settings[1].defaultCurrency # currencyCode
  /\ LET updates == Merge(ui.settings[1], [defaultCurrency |-> currencyCode])
     IN  /\ settings' = updateSettings(settings, updates, now)
         /\ ui' = [ui EXCEPT !.settings = Some(updates)]
  /\ now' = now + 1
  /\ budget' = budget - 1
  /\ lastCall' = Call("updateSettings", 0, 0, None)
  /\ lastResult' = Result(0, << >>)
  /\ UNCHANGED <<tz, exported, budgets, running,
                 nextId, transactions, categories, accounts, pc, lastRead>>

\* DeleteDataDialog.handleFinalDelete: deleteAllData, then the page reloads
handleFinalDelete ==
  /\ pc = "idle" /\ budget > 0
  /\ ui.tab = "settings"
  /\ LET db == deleteAllData(DB(transactions, categories, accounts, settings),
                             nextId, now)
     IN  /\ transactions' = db.transactions
         /\ categories' = db.categories
         /\ accounts' = db.accounts
         /\ settings' = db.settings
         /\ ui' = Mount("dashboard", db.settings)
  /\ nextId' = nextId + SeedIds
  /\ now' = now + 1
  /\ budget' = budget - 1
  /\ pc' = "loadData"
  /\ lastCall' = Call("deleteAllData", 0, 0, None)
  /\ lastResult' = Result(0, << >>)
  /\ running' = {}
  /\ UNCHANGED <<tz, exported, budgets, lastRead>>

\* JSON.stringify leaves out the properties that are undefined; JSON.parse
\* gives back the others, and a property left out reads as undefined again
OptionalFields ==
  {"completedAt", "repeatConfig", "repeatIndex", "repeatTotal", "parentRepeatId"}
JSONstringify(r) ==
  [k \in {f \in DOMAIN r : f \notin OptionalFields \/ r[f] # None} |-> r[k]]
JSONparse(text) == Stored(text)
RECURSIVE JSONlist(_)
JSONlist(list) ==
  IF list = <<>> THEN <<>>
  ELSE <<JSONparse(JSONstringify(Head(list)))>> \o JSONlist(Tail(list))

\* SettingsPage.handleExportData: the file holds every transaction, category
\* and account of the stores, and the settings (which no import reads)
handleExportData ==
  /\ pc = "idle" /\ ui.tab = "settings"
  /\ exported' = Some([categories |-> getAll(categories),
                        accounts |-> getAll(accounts),
                        transactions |-> JSONlist(getAll(transactions)),
                        settings |-> settings])
  /\ UNCHANGED <<tz, budgets, running, budget, now, nextId, transactions,
                 categories, accounts, settings, ui, pc, lastCall, lastResult,
                 lastRead>>

\* a backup file written by another installation of the app: its ids are that
\* installation's uuids
BackupFile ==
  [categories |->
     << [id |-> 102, type |-> "expense", name |-> "food", isDefault |-> FALSE,
         isSystem |-> TRUE, createdAt |-> 0, updatedAt |-> 0],
        [id |-> 103, type |-> "expense", name |-> "pets", isDefault |-> FALSE,
         isSystem |-> TRUE, createdAt |-> 0, updatedAt |-> 0] >>,
   accounts |->
     << [id |-> 101, name |-> "defaultAccount", isDefault |-> TRUE,
         createdAt |-> 0, updatedAt |-> 0] >>,
   transactions |->
     << Stored([id |-> 110, type |-> "expense", value |-> 300, currency |-> "BRL",
                description |-> "lunch", categoryId |-> 102, accountId |-> 101,
                date |-> <<2023, 11, 30>>, isCompleted |-> TRUE, isFixed |-> FALSE,
                isRepeating |-> FALSE, observation |-> "", tags |-> << >>,
                createdAt |-> 0, updatedAt |-> 0]) >>]

\* the loops of handleImportData: a record is put unless its key was in the
\* store when the loop began
RECURSIVE importCategories(_, _, _)
importCategories(store, list, existingCatKeys) ==
  IF list = <<>> THEN store
  ELSE importCategories(
         IF <<Head(list).type, Head(list).name>> \notin existingCatKeys
         THEN put(store, Head(list)) ELSE store,
         Tail(list), existingCatKeys)

RECURSIVE importAccounts(_, _, _)
importAccounts(store, list, existingAccNames) ==
  IF list = <<>> THEN store
  ELSE importAccounts(
         IF Head(list).name \notin existingAccNames
         THEN put(store, Head(list)) ELSE store,
         Tail(list), existingAccNames)

RECURSIVE importTransactions(_, _, _)
importTransactions(store, list, existingTxIds) ==
  IF list = <<>> THEN store
  ELSE importTransactions(
         IF Head(list).id \notin existingTxIds
         THEN put(store, Head(list)) ELSE store,
         Tail(list), existingTxIds)

\* SettingsPage.handleImportData, then the page reloads
handleImportData(importData) ==
  /\ pc = "idle" /\ budget > 0
  /\ ui.tab = "settings"
  /\ categories' = importCategories(categories, importData.categories,
                                    {<<c.type, c.name>> : c \in categories})
  /\ accounts' = importAccounts(accounts, importData.accounts,
                                {a.name : a \in accounts})
  /\ transactions' = importTransactions(transactions, importData.transactions,
                                        {t.id : t \in transactions})
  /\ ui' = Mount("dashboard", settings)
  /\ now' = now + 1
  /\ budget' = budget - 1
  /\ pc' = "loadData"
  /\ lastCall' = Call("handleImportData", 0, 0, None)
  /\ lastResult' = Result(0, << >>)
  /\ running' = {}
  /\ UNCHANGED <<tz, exported, budgets, nextId, settings, lastRead>>

\* ---- initializeDB await by await, from stores that hold nothing. App starts
\* a call when it mounts and renders no page until a call has returned; a
\* second window of the app starts a call of its own
InitEmpty ==
  /\ tz \in TZOffsets
  /\ now = 0
  /\ nextId = 1
  /\ transactions = {} /\ categories = {} /\ accounts = {} /\ settings = None
  /\ budgets = {}
  /\ running = {}
  /\ exported = None
  /\ ui = Mount("dashboard", None)
  /\ pc = "boot"
  /\ budget = MaxOpsInit
  /\ lastCall = Call("none", 0, 0, None)
  /\ lastResult = Result(0, << >>)
  /\ lastRead = None

\* App useEffect: initializeDB() is called
initializeDBStart ==
  /\ budget > 0
  /\ running' = running \cup {[op |-> "initializeDB", call |-> budget,
                                at |-> "get", now |-> now, i |-> 0]}
  /\ now' = now + 1
  /\ budget' = budget - 1
  /\ lastCall' = Call("initializeDB", 0, 0, None)
  /\ UNCHANGED <<tz, exported, budgets, nextId, transactions, categories, accounts,
                 settings, ui, pc, lastResult, lastRead>>

\* db.get('settings', 'user'): the call returns when there are settings, and
\* App is ready
initializeDBGet(job) ==
  /\ job \in running /\ job.op = "initializeDB" /\ job.at = "get"
  /\ IF settings # None
     THEN running' = running \ {job} /\ pc' = IF pc = "boot" THEN "loadData" ELSE pc
     ELSE /\ running' = (running \ {job})
                          \cup {[job EXCEPT !.at = "settings", !.now = now]}
          /\ pc' = pc
  /\ UNCHANGED <<tz, exported, budgets, budget, now, nextId, transactions, categories,
                 accounts, settings, ui, lastCall, lastResult, lastRead>>

\* the puts of initializeDB in their order: the settings, the default account,
\* the income and the expense categories one by one
initializeDBPut(job) ==
  LET seeds == defaultIncomeCategories \o defaultExpenseCategories
      stamp == [createdAt |-> job.now, updatedAt |-> job.now]
  IN  /\ job \in running /\ job.op = "initializeDB"
      /\ job.at \in {"settings", "account", "categories"}
      /\ settings' = IF job.at = "settings"
                     THEN Some(Merge([id |-> "user",
                                      defaultCurrency |-> detectUserCurrency,
                                      processedFixedMonths |-> <<>>], stamp))
                     ELSE settings
      /\ accounts' = IF job.at = "account"
                     THEN put(accounts, Merge([id |-> nextId, name |-> "defaultAccount",
                                               isDefault |-> TRUE], stamp))
                     ELSE accounts
      /\ categories' = IF job.at = "categories"
                       THEN put(categories,
                                Merge(seeds[job.i], Merge([id |-> nextId], stamp)))
                       ELSE categories
      /\ nextId' = IF job.at = "settings" THEN nextId ELSE nextId + 1
      /\ IF job.at = "categories" /\ job.i = Len(seeds)
         THEN running' = running \ {job} /\ pc' = IF pc = "boot" THEN "loadData" ELSE pc
         ELSE /\ running' = (running \ {job}) \cup
                 {CASE job.at = "settings" -> [job EXCEPT !.at = "account"]
                    [] job.at = "account" -> [job EXCEPT !.at = "categories", !.i = 1]
                    [] OTHER -> [job EXCEPT !.i = job.i + 1]}
              /\ pc' = pc
      /\ UNCHANGED <<tz, exported, budgets, budget, now, transactions, ui, lastCall,
                     lastResult, lastRead>>

\* the app is closed while initializeDB runs: the calls end where they are,
\* and the next start of the app calls initializeDB again
stopInitializing ==
  /\ \E job \in running : job.op = "initializeDB"
  /\ running' = {}
  /\ pc' = "boot"
  /\ now' = now + 1
  /\ UNCHANGED <<tz, exported, budgets, budget, nextId, transactions, categories,
                 accounts, settings, ui, lastCall, lastResult, lastRead>>

\* ---- deleteCategory and deleteAccount await by await. A call in progress
\* is a record of running: the call's arguments and the part of its snapshot
\* (db.getAll('transactions')) the loop has still to write.
\* CategorySelector.handleDelete / CategoryManagement.handleDelete up to the
\* first put of deleteCategory
deleteCategoryStart(id, moveToId) ==
  /\ pc = "idle" /\ budget > 0 /\ running = {}
  /\ \E c \in categories, m \in categories :
       /\ c.id = id /\ m.id = moveToId /\ ~c.isDefault
       /\ m.type = c.type /\ m.id # c.id
       /\ \/ ui.tab = "settings"
          \/ ui.tab = "dashboard" /\ ui.sheet # None /\ ui.sheet[1].type = c.type
  /\ running' = {[op |-> "deleteCategory", id |-> id, moveToId |-> moveToId,
                  list |-> SelectSeq(getAll(transactions),
                                     LAMBDA tx : tx.categoryId = id)]}
  /\ budget' = budget - 1
  /\ lastCall' = Call("deleteCategory", id, moveToId, None)
  /\ lastResult' = Result(0, << >>)
  /\ UNCHANGED <<tz, exported, budgets, now, nextId, transactions, categories, accounts, settings,
                 ui, pc, lastRead>>

\* one turn of the loop that writes: await db.put('transactions', ...)
\* (deleteCategoryPutNothing: a variant whose turn writes nothing)
deleteCategoryPutNothing(job) ==
  /\ job \in running /\ job.op = "deleteCategory" /\ job.list # << >>
  /\ running' = {[job EXCEPT !.list = Tail(job.list)]}
  /\ UNCHANGED <<tz, exported, budgets, budget, now, nextId, transactions, categories, accounts,
                 settings, ui, pc, lastCall, lastResult, lastRead>>
deleteCategoryPut(job) ==
  /\ job \in running /\ job.op = "deleteCategory" /\ job.list # << >>
  /\ transactions' = moveCategory(transactions, << Head(job.list) >>,
                                  job.id, job.moveToId, now)
  /\ running' = {[job EXCEPT !.list = Tail(job.list)]}
  /\ UNCHANGED <<tz, exported, budgets, budget, now, nextId, categories, accounts, settings, ui,
                 pc, lastCall, lastResult, lastRead>>

\* after the loop: await db.delete('categories', id)
deleteCategoryDelete(job) ==
  /\ job \in running /\ job.op = "deleteCategory" /\ job.list = << >>
  /\ categories' = {c \in categories : c.id # job.id}
  /\ running' = {}
  /\ now' = now + 1
  /\ UNCHANGED <<tz, exported, budgets, budget, nextId, transactions, accounts, settings, ui, pc,
                 lastCall, lastResult, lastRead>>

\* AccountSelector.handleDelete up to the first put of deleteAccount
deleteAccountStart(id, moveToId) ==
  /\ pc = "idle" /\ budget > 0 /\ running = {}
  /\ ui.tab = "dashboard" /\ ui.sheet # None
  /\ \E a \in accounts, m \in accounts :
       a.id = id /\ m.id = moveToId /\ ~a.isDefault /\ m.id # a.id
  /\ running' = {[op |-> "deleteAccount", id |-> id, moveToId |-> moveToId,
                  list |-> SelectSeq(getAll(transactions),
                                     LAMBDA tx : tx.accountId = id)]}
  /\ budget' = budget - 1
  /\ lastCall' = Call("deleteAccount", id, moveToId, None)
  /\ lastResult' = Result(0, << >>)
  /\ UNCHANGED <<tz, exported, budgets, now, nextId, transactions, categories, accounts, settings,
                 ui, pc, lastRead>>

deleteAccountPut(job) ==
  /\ job \in running /\ job.op = "deleteAccount" /\ job.list # << >>
  /\ transactions' = moveAccount(transactions, << Head(job.list) >>,
                                 job.id, job.moveToId, now)
  /\ running' = {[job EXCEPT !.list = Tail(job.list)]}
  /\ UNCHANGED <<tz, exported, budgets, budget, now, nextId, categories, accounts, settings, ui,
                 pc, lastCall, lastResult, lastRead>>

deleteAccountDelete(job) ==
  /\ job \in running /\ job.op = "deleteAccount" /\ job.list = << >>
  /\ accounts' = {a \in accounts : a.id # job.id}
  /\ running' = {}
  /\ now' = now + 1
  /\ UNCHANGED <<tz, exported, budgets, budget, nextId, transactions, categories, settings, ui, pc,
                 lastCall, lastResult, lastRead>>

\* the app stops while a call is in progress (the tab is closed, the process
\* is killed); what the call has written stays, the app is opened again later
stop ==
  /\ running # {}
  /\ running' = {}
  /\ now' = now + 1
  /\ ui' = Mount("dashboard", settings)
  /\ pc' = "loadData"
  /\ UNCHANGED <<tz, exported, budgets, budget, nextId, transactions, categories, accounts,
                 settings, lastCall, lastResult, lastRead>>

\* ---- Dashboard.loadData when generateFixedTransactionsForMonth has copies
\* to write, await by await. The call in progress is a record of running:
\* the month, the fixed transactions still to copy, createdCount.
\* the fixed transactions of the month before the one shown
previousFixed ==
  LET year == getFullYear(ui.currentDate, tz)
      month0 == getMonth(ui.currentDate, tz)
      prevMonth == IF month0 - 1 < 0 THEN 11 ELSE month0 - 1
      prevYear == IF month0 - 1 < 0 THEN year - 1 ELSE year
  IN  getFixedTransactionsFromMonth(transactions, prevYear, prevMonth, tz)

\* the call returns before its loop: the month is processed, or there is
\* nothing to copy
NothingToCopy ==
  \/ isMonthProcessed(settings, getFullYear(ui.currentDate, tz),
                      getMonth(ui.currentDate, tz))
  \/ previousFixed = {}

\* loadData up to the first addTransaction of the loop
generateStart ==
  /\ pc = "loadData" /\ ui.tab = "dashboard" /\ running = {}
  /\ ~NothingToCopy
  /\ running' = {[op |-> "generateFixedTransactionsForMonth", call |-> 1,
                  year |-> getFullYear(ui.currentDate, tz),
                  month |-> getMonth(ui.currentDate, tz),
                  list |-> getAll(previousFixed), createdCount |-> 0]}
  /\ pc' = "generate"
  /\ lastCall' = Call("generateFixedTransactionsForMonth",
                      getFullYear(ui.currentDate, tz), getMonth(ui.currentDate, tz),
                      None)
  /\ lastResult' = Result(0, << >>)
  /\ UNCHANGED <<tz, exported, budgets, budget, now, nextId, transactions, categories, accounts,
                 settings, ui, lastRead>>

\* loadData is called again for the month shown while its first call is in
\* its loop (onSave, onTransactionUpdate, the effect of a month picked again):
\* the second call reads the month unprocessed too
loadDataAgain ==
  /\ pc = "generate" /\ ui.tab = "dashboard" /\ budget > 0
  /\ \A job \in running : job.op = "generateFixedTransactionsForMonth" /\ job.call = 1
  /\ ~NothingToCopy
  /\ running' = running \cup
       {[op |-> "generateFixedTransactionsForMonth", call |-> 2,
         year |-> getFullYear(ui.currentDate, tz),
         month |-> getMonth(ui.currentDate, tz),
         list |-> getAll(previousFixed), createdCount |-> 0]}
  /\ now' = now + 1
  /\ budget' = budget - 1
  /\ UNCHANGED <<tz, exported, budgets, nextId, transactions, categories, accounts,
                 settings, ui, pc, lastCall, lastResult, lastRead>>

\* one turn of the loop: await addTransaction(...), createdCount++
generatePut(job) ==
  /\ job \in running /\ job.op = "generateFixedTransactionsForMonth"
  /\ job.list # << >>
  /\ LET tx == addTransaction(fixedDraft(Head(job.list), job.year, job.month, tz),
                              nextId, now)
     IN  /\ transactions' = put(transactions, tx)
         /\ lastResult' = Result(job.createdCount + 1, Append(lastResult.list, tx))
  /\ nextId' = nextId + 1
  /\ running' = (running \ {job})
                   \cup {[job EXCEPT !.list = Tail(job.list),
                                     !.createdCount = job.createdCount + 1]}
  /\ UNCHANGED <<tz, exported, budgets, budget, now, categories, accounts, settings, ui, pc,
                 lastCall, lastRead>>

\* one turn of the loop whose db.put rejects (the quota is exceeded, the
\* transaction aborts): addTransaction throws, and so do the call and
\* loadData, which catches nothing; the page keeps what it showed
\* (generatePutFailsMarked: a variant that marks the month on the way out)
generatePutFailsMarked(job) ==
  /\ job \in running /\ job.op = "generateFixedTransactionsForMonth"
  /\ job.list # << >> /\ budget > 0
  /\ settings' = markMonthAsProcessed(settings, job.year, job.month, now)
  /\ running' = {}
  /\ pc' = "idle"
  /\ now' = now + 1
  /\ budget' = budget - 1
  /\ UNCHANGED <<tz, exported, budgets, nextId, transactions, categories, accounts, ui,
                 lastCall, lastResult, lastRead>>
generatePutFails(job) ==
  /\ job \in running /\ job.op = "generateFixedTransactionsForMonth"
  /\ job.list # << >> /\ budget > 0
  /\ settings' = settings
  /\ running' = {}
  /\ pc' = "idle"
  /\ now' = now + 1
  /\ budget' = budget - 1
  /\ UNCHANGED <<tz, exported, budgets, nextId, transactions, categories, accounts, ui,
                 lastCall, lastResult, lastRead>>

\* after the loop: markMonthAsProcessed, return createdCount; loadData reads
generateMark(job) ==
  /\ job \in running /\ job.op = "generateFixedTransactionsForMonth"
  /\ job.list = << >>
  /\ settings' = markMonthAsProcessed(settings, job.year, job.month, now)
  /\ running' = running \ {job}
  /\ pc' = IF running = {job} THEN "idle" ELSE pc
  /\ now' = now + 1
  /\ lastRead' = Some([view |-> "dashboard", year |-> job.year, month |-> job.month,
                        processed |-> isMonthProcessed(settings', job.year, job.month)])
  /\ UNCHANGED <<tz, exported, budgets, budget, nextId, transactions, categories, accounts, ui,
                 lastCall, lastResult>>

\* ---- TransactionSheet.handleSave of a purchase in installments, await by
\* await. The call of addRecurringTransaction in progress is a record of
\* running with the installments it has still to put.
\* handleSave up to the first put of addRecurringTransaction; lastCall counts
\* the attempts of one call (a) and keeps the time of the first (b)
handleSaveRecurring(form, date) ==
  /\ pc = "idle" /\ ui.sheet # None /\ budget > 0 /\ running = {}
  /\ form.isRepeating /\ form.value # 0
  /\ LET sheet == ui.sheet[1]
     IN  /\ sheet.category # None /\ sheet.account # None /\ sheet.edit = None
         /\ LET data == transactionData(
                          [sheet EXCEPT !.category = sheet.category[1],
                                        !.account = sheet.account[1]],
                          form, date, now)
                again == /\ lastCall.op = "addRecurringTransaction rejected"
                         /\ lastCall.draft = Some(data)
            IN  /\ running' = {[op |-> "addRecurringTransaction",
                                list |-> addRecurringTransaction(data, nextId, now, tz)]}
                /\ nextId' = nextId + recurringIds(data)
                /\ lastCall' = IF again
                               THEN Call("addRecurringTransaction", lastCall.a + 1,
                                         lastCall.b, Some(data))
                               ELSE Call("addRecurringTransaction", 0, now, Some(data))
  /\ lastResult' = Result(0, << >>)
  /\ now' = now + 1
  /\ budget' = budget - 1
  /\ UNCHANGED <<tz, exported, budgets, transactions, categories, accounts, settings, ui, pc,
                 lastRead>>

\* one turn of the loop: await db.put('transactions', newTransaction)
addRecurringPut(job) ==
  /\ job \in running /\ job.op = "addRecurringTransaction" /\ job.list # << >>
  /\ transactions' = put(transactions, Head(job.list))
  /\ lastResult' = Result(lastResult.count + 1, Append(lastResult.list, Head(job.list)))
  /\ running' = {[job EXCEPT !.list = Tail(job.list)]}
  /\ UNCHANGED <<tz, exported, budgets, budget, now, nextId, categories, accounts, settings, ui,
                 pc, lastCall, lastRead>>

\* one turn of the loop whose db.put rejects: the call and handleSave throw,
\* handleClose is not reached, the sheet stays open on the same form
addRecurringPutFails(job) ==
  /\ job \in running /\ job.op = "addRecurringTransaction" /\ job.list # << >>
  /\ budget > 0
  /\ running' = {}
  /\ lastCall' = [lastCall EXCEPT !.op = "addRecurringTransaction rejected"]
  /\ now' = now + 1
  /\ budget' = budget - 1
  /\ UNCHANGED <<tz, exported, budgets, nextId, transactions, categories, accounts, settings, ui,
                 pc, lastResult, lastRead>>

\* the call returns its list; handleSave closes the sheet and the page reloads
handleSaveReturn(job) ==
  /\ job \in running /\ job.op = "addRecurringTransaction" /\ job.list = << >>
  /\ running' = {}
  /\ ui' = [ui EXCEPT !.sheet = None]
  /\ pc' = "loadData"
  /\ UNCHANGED <<tz, exported, budgets, budget, now, nextId, transactions, categories, accounts,
                 settings, lastCall, lastResult, lastRead>>

\* BudgetManager, mounted on the month of today
BudgetYear == Today[1]
BudgetMonth == Today[2] - 1
Amounts == {100, 250}

\* BudgetManager.handleAddBudget: the category chosen is one of
\* categoriesWithoutBudget; the handler calls setBudget and awaits it. Nothing
\* disables the button while the call runs.
handleAddBudget(selectedCategory, amount) ==
  /\ pc = "idle" /\ budget > 0
  /\ \E c \in categories : c.id = selectedCategory /\ c.type = "expense"
  /\ ~ \E b \in getBudgetsByMonth(budgets, BudgetYear, BudgetMonth) :
         b.categoryId = selectedCategory
  /\ running' = running \cup
       {[op |-> "setBudget", categoryId |-> selectedCategory, amount |-> amount,
         currency |-> settings[1].defaultCurrency,
         monthKey |-> getMonthKey(BudgetYear, BudgetMonth),
         now |-> now, at |-> "getAll", existing |-> None]}
  /\ now' = now + 1
  /\ budget' = budget - 1
  /\ lastCall' = Call("setBudget", selectedCategory, amount, None)
  /\ UNCHANGED <<tz, exported, budgets, nextId, transactions, categories, accounts, settings, ui,
                 pc, lastResult, lastRead>>

\* setBudget, first await: db.getAll('budgets') and the search for the pair
setBudgetGetAll(call) ==
  /\ call \in running /\ call.op = "setBudget" /\ call.at = "getAll"
  /\ running' = (running \ {call}) \cup
       {[call EXCEPT !.at = "put",
                     !.existing = findBudget(budgets, call.categoryId, call.monthKey)]}
  /\ UNCHANGED <<tz, exported, budgets, budget, now, nextId, transactions, categories, accounts,
                 settings, ui, pc, lastCall, lastResult, lastRead>>

\* setBudget, second await: db.put of the updated or the new record
setBudgetPut(call) ==
  /\ call \in running /\ call.op = "setBudget" /\ call.at = "put"
  /\ budgets' = put(budgets,
                    setBudgetRecord(call.existing, call.categoryId, call.amount,
                                    call.currency, call.monthKey, nextId, call.now))
  /\ nextId' = IF call.existing = None THEN nextId + 1 ELSE nextId
  /\ running' = running \ {call}
  /\ UNCHANGED <<tz, exported, budget, now, transactions, categories, accounts, settings, ui, pc,
                 lastCall, lastResult, lastRead>>

\* BudgetManager.handleDeleteBudget
handleDeleteBudget(budgetId) ==
  /\ pc = "idle" /\ budget > 0
  /\ \E b \in getBudgetsByMonth(budgets, BudgetYear, BudgetMonth) : b.id = budgetId
  /\ budgets' = deleteBudget(budgets, budgetId)
  /\ now' = now + 1
  /\ budget' = budget - 1
  /\ lastCall' = Call("deleteBudget", budgetId, 0, None)
  /\ UNCHANGED <<tz, exported, running, nextId, transactions, categories, accounts, settings, ui,
                 pc, lastResult, lastRead>>

\* a call of copyBudgetsToMonth from the month shown to the next one (the
\* function is exported; no component calls it)
callCopyBudgetsToMonth ==
  /\ pc = "idle" /\ budget > 0
  /\ getBudgetsByMonth(budgets, BudgetYear, BudgetMonth) # {}
  /\ LET c == copyBudgetsToMonth(budgets, BudgetYear, BudgetMonth,
                                 BudgetYear + (BudgetMonth + 1) \div 12,
                                 (BudgetMonth + 1) % 12, nextId, now)
     IN  budgets' = c.store /\ nextId' = c.id
  /\ now' = now + 1
  /\ budget' = budget - 1
  /\ lastCall' = Call("copyBudgetsToMonth", BudgetYear, BudgetMonth, None)
  /\ UNCHANGED <<tz, exported, running, transactions, categories, accounts, settings, ui, pc,
                 lastResult, lastRead>>

Types == {"income", "expense"}
Tabs == {"dashboard", "reports", "settings"}

\* the months: the two month views, the month pickers and the sheet saving a
\* fixed expense on a date picked in the calendar or a plain one today
NextGen ==
  \/ DashboardLoadData
  \/ ReportsLoadData
  \/ goToPreviousMonth
  \/ goToNextMonth
  \/ \E tab \in {"dashboard", "reports"} : onTabChange(tab)
  \/ openSheet("expense")
  \/ closeSheet
  \/ \E date \in FormDates \ {Today} : handleSave(Rent, date)
  \/ handleSave(Bill, Today)

InitGen == InitWith(MaxOpsGen)
SpecGen == InitGen /\ [][NextGen]_vars

\* the references: the sheet with its two selectors, on today's date
NextRef ==
  \/ DashboardLoadData
  \/ openSheet("expense")
  \/ \E tx \in transactions, oc \in BOOLEAN, oa \in BOOLEAN :
       handleTransactionClick(tx, oc, oa)
  \/ \E c \in categories : selectCategory(c)
  \/ \E a \in accounts : selectAccount(a)
  \/ closeSheet
  \/ handleSave(Bill, Today)
  \/ \E c \in categories, m \in categories : handleDeleteCategory(c.id, m.id)
  \/ handleSaveAccount("bank")
  \/ \E a \in accounts, m \in accounts : handleDeleteAccount(a.id, m.id)

InitRef == InitWith(MaxOpsRef)
SpecRef == InitRef /\ [][NextRef]_vars

\* the balances: the forms that are not fixed, both types, two accounts
NextBal ==
  \/ DashboardLoadData
  \/ \E type \in Types : openSheet(type)
  \/ \E a \in accounts : selectAccount(a)
  \/ \E form \in Forms \ {Rent} : handleSave(form, Today)
  \/ handleSaveAccount("bank")

InitBal == InitWith(MaxOpsBal)
SpecBal == InitBal /\ [][NextBal]_vars

\* the settings page beside the dashboard and its month picker
NextSet ==
  \/ DashboardLoadData
  \/ goToPreviousMonth
  \/ goToNextMonth
  \/ \E tab \in {"dashboard", "settings"} : onTabChange(tab)
  \/ \E c \in Currencies : handleCurrencyChange(c)
  \/ handleFinalDelete
  \/ handleImportData(BackupFile)
  \/ \E a \in accounts : AccountManagement_handleSave(a.id, "wallet")

InitSet == InitWith(MaxOpsSet)
SpecSet == InitSet /\ [][NextSet]_vars

\* the first run: calls of initializeDB, alone, overlapping, stopped and
\* started again
NextInit ==
  \/ initializeDBStart
  \/ \E job \in running : initializeDBGet(job)
  \/ \E job \in running : initializeDBPut(job)
  \/ stopInitializing

SpecInit == InitEmpty /\ [][NextInit]_vars

\* backups: the settings page exports the stores and imports a file, its own
\* or another installation's, between saves, a rename and a deleteAllData
NextBak ==
  \/ DashboardLoadData
  \/ \E tab \in {"dashboard", "settings"} : onTabChange(tab)
  \/ openSheet("expense")
  \/ handleSave(Bill, Today)
  \/ handleExportData
  \/ exported # None /\ handleImportData(exported[1])
  \/ handleImportData(BackupFile)
  \/ \E a \in accounts : AccountManagement_handleSave(a.id, "wallet")
  \/ handleFinalDelete

InitBak == InitWith(MaxOpsBak)
SpecBak == InitBak /\ [][NextBak]_vars

\* restoring a backup: a fixed transaction is saved and copied into the next
\* month, the stores are exported, deleted and imported again
NextRestore ==
  \/ DashboardLoadData
  \/ goToNextMonth
  \/ \E tab \in {"dashboard", "settings"} : onTabChange(tab)
  \/ openSheet("expense")
  \/ handleSave(Rent, Today)
  \/ handleExportData
  \/ exported # None /\ handleImportData(exported[1])
  \/ handleFinalDelete

InitRestore == InitWith(MaxOpsRestore)
SpecRestore == InitRestore /\ [][NextRestore]_vars

\* the sheet saving purchases in installments, of every period and on the
\* first, a middle and the last day of a month
NextRec ==
  \/ DashboardLoadData
  \/ \E type \in Types : openSheet(type)
  \/ closeSheet
  \/ \E period \in Periods : \E n \in 2..MaxTimes : \E date \in FormDates :
       handleSave(Plan(period, n), date)

InitRec == InitWith(MaxOpsRec)
SpecRec == InitRec /\ [][NextRec]_vars

\* groups of installments: the sheet adds purchases, an edit completes an
\* installment, the pending rest of a group is deleted
NextDel ==
  \/ DashboardLoadData
  \/ openSheet("expense")
  \/ \E tx \in transactions : handleTransactionClick(tx, TRUE, TRUE)
  \/ closeSheet
  \/ /\ ui.sheet # None /\ ui.sheet[1].edit = None
     /\ \E form \in {Bill} \cup {Course(n) : n \in 2..MaxTimes} : handleSave(form, Today)
  \/ /\ ui.sheet # None /\ ui.sheet[1].edit # None
     /\ handleSave(Pay, Today)
  \/ \E tx \in transactions : tx.parentRepeatId # None
       /\ callDeletePendingRecurringTransactions(tx.parentRepeatId[1])

InitDel == InitWith(MaxOpsDel)
SpecDel == InitDel /\ [][NextDel]_vars

\* deletes of categories and accounts that can stop between two awaits and be
\* started again; the handlers run one call at a time
NextStop ==
  \/ DashboardLoadData
  \/ /\ running = {}
     /\ \/ openSheet("expense")
        \/ \E c \in categories : selectCategory(c)
        \/ \E a \in accounts : selectAccount(a)
        \/ handleSave(Bill, Today)
        \/ handleSaveAccount("bank")
  \/ \E c \in categories, m \in categories : deleteCategoryStart(c.id, m.id)
  \/ \E job \in running : deleteCategoryPut(job)
  \/ \E job \in running : deleteCategoryDelete(job)
  \/ \E a \in accounts, m \in accounts : deleteAccountStart(a.id, m.id)
  \/ \E job \in running : deleteAccountPut(job)
  \/ \E job \in running : deleteAccountDelete(job)
  \/ stop

InitStop == InitWith(MaxOpsStop)
SpecStop == InitStop /\ [][NextStop]_vars

\* the generator writing its copies one at a time, any of the writes failing
NextFail ==
  \/ NothingToCopy /\ DashboardLoadData
  \/ generateStart
  \/ \E job \in running : generatePut(job)
  \/ \E job \in running : generatePutFails(job)
  \/ \E job \in running : generateMark(job)
  \/ goToPreviousMonth
  \/ goToNextMonth
  \/ openSheet("expense")
  \/ handleSave(Rent, Today)

InitFail == InitWith(MaxOpsFail)
SpecFail == InitFail /\ [][NextFail]_vars

\* a delete of a category in its loop while the sheet deletes or saves the
\* transaction it edits
NextRace ==
  \/ DashboardLoadData
  \/ openSheet("expense")
  \/ \E tx \in transactions : handleTransactionClick(tx, TRUE, TRUE)
  \/ \E c \in categories : selectCategory(c)
  \/ \E form \in {Bill, Rent} : handleSave(form, Today)
  \/ \E mode \in {"single", "all"} : TransactionSheet_handleDelete(mode)
  \/ \E c \in categories, m \in categories : deleteCategoryStart(c.id, m.id)
  \/ \E job \in running : deleteCategoryPut(job)
  \/ \E job \in running : deleteCategoryDelete(job)

InitRace == InitWith(MaxOpsRace)
SpecRace == InitRace /\ [][NextRace]_vars

\* the generator called twice for one month, the second call starting while
\* the first is in its loop
NextOverlap ==
  \/ NothingToCopy /\ DashboardLoadData
  \/ generateStart
  \/ loadDataAgain
  \/ \E job \in running : generatePut(job)
  \/ \E job \in running : generateMark(job)
  \/ goToPreviousMonth
  \/ goToNextMonth
  \/ openSheet("expense")
  \/ handleSave(Rent, Today)

InitOverlap == InitWith(MaxOpsOverlap)
SpecOverlap == InitOverlap /\ [][NextOverlap]_vars

\* purchases in installments written one put at a time, any put failing, and
\* save pressed again on the sheet that stayed open
NextRetry ==
  \/ DashboardLoadData
  \/ running = {} /\ \E type \in Types : openSheet(type)
  \/ running = {} /\ closeSheet
  \/ \E n \in 2..MaxTimes : handleSaveRecurring(Course(n), Today)
  \/ \E job \in running : addRecurringPut(job)
  \/ \E job \in running : addRecurringPutFails(job)
  \/ \E job \in running : handleSaveReturn(job)

InitRetry == InitWith(MaxOpsRetry)
SpecRetry == InitRetry /\ [][NextRetry]_vars

\* the budget manager: taps on Add and on the bin, the awaits of the calls of
\* setBudget in any order, a copy of the month
NextBud ==
  \/ DashboardLoadData
  \/ \E c \in categories : \E amount \in Amounts : handleAddBudget(c.id, amount)
  \/ \E call \in running : setBudgetGetAll(call)
  \/ \E call \in running : setBudgetPut(call)
  \/ \E b \in budgets : handleDeleteBudget(b.id)
  \/ callCopyBudgetsToMonth
  \/ \E tab \in {"dashboard", "settings"} : onTabChange(tab)
  \/ handleFinalDelete

InitBud == InitWith(MaxOpsBud)
SpecBud == InitBud /\ [][NextBud]_vars

\* ------------------------------------------------- properties of SpecGen
GenerateOp == "generateFixedTransactionsForMonth"
\* the calendar month a YYYY-MM-DD date lies in, and the month before (y, month0)
MonthOf(date) == <<date[1], date[2]>>
PreviousMonth(year, month0) ==
  IF month0 = 0 THEN <<year - 1, 12>> ELSE <<year, month0>>
LastDay(year, month0) ==
  IF month0 = 11 THEN 31
  ELSE DaysFromCivil(year, month0 + 2, 1) - DaysFromCivil(year, month0 + 1, 1)
Min(a, b) == IF a < b THEN a ELSE b
\* what a generated transaction keeps of its source
Copied(tx) ==
  [type |-> tx.type, value |-> tx.value, currency |-> tx.currency,
   description |-> tx.description, categoryId |-> tx.categoryId,
   accountId |-> tx.accountId, observation |-> tx.observation, tags |-> tx.tags]

\* C1: in a state where the last operation was generateFixedTransactionsForMonth(y, m),
\* calling it again for (y, m) returns 0 and leaves the set of transactions as
\* the first call left it.
C1_SecondCallCreatesNothing ==
  lastCall.op = GenerateOp =>
    LET g == generateFixedTransactionsForMonth(transactions, settings, lastCall.a,
                                               lastCall.b, nextId, now, tz)
    IN  g.result = 0 /\ g.transactions = transactions

\* the first call has just generated transactions
C1_Witness == lastCall.op = GenerateOp /\ lastResult.count > 0

\* C6 as stated: every transaction generateFixedTransactionsForMonth(y, m)
\* creates is dated in month (y, m), on the day of the month of one of the fixed
\* transactions or on the last day of (y, m) when that day does not exist.
C6_DatedInsideTargetMonth ==
  [][DashboardLoadData =>
       \A tx \in transactions' \ transactions :
         /\ MonthOf(tx.date) = <<lastCall'.a, lastCall'.b + 1>>
         /\ \E src \in transactions :
              /\ src.isFixed /\ Copied(src) = Copied(tx)
              /\ tx.date[3] = Min(src.date[3], LastDay(lastCall'.a, lastCall'.b))]_vars

\* C7 as stated: on an unprocessed month the call creates one transaction for
\* each fixed transaction dated in the previous calendar month, with the copied
\* fields of its source, fixed, not repeating and pending, creates nothing else
\* and returns their number.
C7_OnePerPreviousFixed ==
  [][(DashboardLoadData /\ ~isMonthProcessed(settings, lastCall'.a, lastCall'.b)) =>
       LET previous == {tx \in transactions :
                          /\ tx.isFixed
                          /\ MonthOf(tx.date) = PreviousMonth(lastCall'.a, lastCall'.b)}
           created == transactions' \ transactions
       IN  /\ lastResult'.count = Cardinality(created)
           /\ \A tx \in created :
                /\ tx.isFixed /\ ~tx.isRepeating /\ ~tx.isCompleted
                /\ Cardinality({c \in created : Copied(c) = Copied(tx)})
                     = Cardinality({src \in previous : Copied(src) = Copied(tx)})
           /\ \A src \in previous : \E tx \in created : Copied(tx) = Copied(src)]_vars

\* C9: every call of generateFixedTransactionsForMonth(y, m) leaves the key of
\* (y, m) in processedFixedMonths, and a call for a month whose key is there
\* returns 0 and creates nothing.
C9_CallMarksMonth ==
  [][DashboardLoadData =>
       /\ isMonthProcessed(settings', lastCall'.a, lastCall'.b)
       /\ isMonthProcessed(settings, lastCall'.a, lastCall'.b) =>
            (transactions' = transactions /\ lastResult'.count = 0)]_vars

\* a call returned 0 for a marked month although the month before holds a
\* fixed transaction that has no copy
C9_Witness ==
  /\ tz = 0 /\ pc = "idle"
  /\ lastCall.op = GenerateOp /\ lastResult.count = 0
  /\ \E src \in transactions :
       /\ src.isFixed /\ MonthOf(src.date) = PreviousMonth(lastCall.a, lastCall.b)
  /\ \A tx \in transactions : MonthOf(tx.date) # <<lastCall.a, lastCall.b + 1>>

\* C10 as stated: a view has read the transactions of a month only after
\* generateFixedTransactionsForMonth has processed that month.
C10_ReadOnlyProcessedMonths == lastRead = None \/ lastRead[1].processed

\* ------------------------------------------------- properties of SpecSet
ProcessedMonths(st) == IF st = None THEN << >> ELSE st[1].processedFixedMonths

C2_ReferencesLive ==
  \A tx \in transactions :
    /\ \E c \in categories : c.id = tx.categoryId
    /\ \E a \in accounts : a.id = tx.accountId

\* C3: deleteCategory(catA, catB) leaves no transaction on catA, moves every
\* transaction that was on catA to catB with updatedAt set to the time of the
\* call, later than it was, leaves every other transaction as it was and
\* removes category catA and nothing else; deleteAccount(a, b) does the same
\* with accountId and the accounts.
C3_DeleteMovesReferences ==
  [][(now' = now + 1 /\ lastCall'.op \in {"deleteCategory", "deleteAccount"}) =>
       LET from == lastCall'.a
           to == lastCall'.b
           isCat == lastCall'.op = "deleteCategory"
           ref(tx) == IF isCat THEN tx.categoryId ELSE tx.accountId
           moved(tx) == IF isCat
                        THEN [tx EXCEPT !.categoryId = to, !.updatedAt = now]
                        ELSE [tx EXCEPT !.accountId = to, !.updatedAt = now]
       IN  /\ \A tx \in transactions' : ref(tx) # from
           /\ \A tx \in transactions :
                IF ref(tx) = from
                THEN moved(tx) \in transactions' /\ tx.updatedAt < now
                ELSE tx \in transactions'
           /\ Cardinality(transactions') = Cardinality(transactions)
           /\ IF isCat
              THEN /\ categories' = {c \in categories : c.id # from}
                   /\ categories' # categories /\ accounts' = accounts
              ELSE /\ accounts' = {a \in accounts : a.id # from}
                   /\ accounts' # accounts /\ categories' = categories]_vars

\* deleteAccount has just moved a transaction to the default account, after
\* deleteCategory had moved it: category food and account bank are gone
C3_Witness ==
  /\ lastCall.op = "deleteAccount"
  /\ \A c \in categories : c.name # "food"
  /\ \A a \in accounts : a.name # "bank"
  /\ \E tx \in transactions :
       /\ tx.accountId = lastCall.b /\ tx.updatedAt = now - 1
       /\ tx.createdAt < tx.updatedAt - 1
       /\ \E c \in categories : c.id = tx.categoryId /\ c.isDefault

\* ------------------------------------------------- properties of SpecBal
RECURSIVE SumOf(_, _)
SumOf(S, type) ==
  IF S = {} THEN 0
  ELSE LET tx == CHOOSE tx \in S : TRUE
       IN  (IF tx.type = type THEN tx.value ELSE 0) + SumOf(S \ {tx}, type)

C5_InstallmentsOfOneParent ==
  [][(now' = now + 1 /\ lastCall'.op \in {"addRecurringTransaction", "addTransaction"}) =>
       LET draft == lastCall'.draft[1]
           list == lastResult'.list
           created == transactions' \ transactions
       IN  /\ created = {list[k] : k \in 1..Len(list)}
           /\ Cardinality(created) = Len(list)
           /\ transactions \subseteq transactions'
           /\ IF draft.isRepeating /\ draft.repeatConfig # None
              THEN LET N == draft.repeatConfig[1].times
                   IN  /\ Len(list) = N
                       /\ list[1].parentRepeatId # None
                       /\ \A tx \in transactions :
                            /\ tx.parentRepeatId # list[1].parentRepeatId
                            /\ Some(tx.id) # list[1].parentRepeatId
                       /\ \A k \in 1..N :
                            /\ list[k].parentRepeatId = list[1].parentRepeatId
                            /\ Some(list[k].id) # list[1].parentRepeatId
                            /\ list[k].repeatIndex = Some(k)
                            /\ list[k].repeatTotal = Some(N)
                            /\ \A j \in 1..(k - 1) : list[j].id < list[k].id
              ELSE /\ list = << addTransaction(draft, nextId, now) >>
                   /\ addRecurringTransaction(draft, nextId, now, tz) = list]_vars

\* three installments were written into a store that held a transaction
C5_Witness ==
  /\ lastCall.op = "addRecurringTransaction"
  /\ Len(lastResult.list) = 3
  /\ \A k \in 1..3 : lastResult.list[k] \in transactions
  /\ Cardinality(transactions) > 3

\* ------------------------------------------------- reads by month (SpecGen)
\* the months the pages of SpecGen can show, and the one before
MonthsShown == {<<2023, 10>>, <<2023, 11>>, <<2024, 0>>, <<2024, 1>>}

\* C18: getTransactionsByMonth(y, m) returns the stored transactions dated in
\* month m of year y, the same set getTransactionsByDateRange returns from
\* the first to the last day of that month
C18_MonthIsDateRange ==
  \A ym \in MonthsShown :
    getTransactionsByMonth(transactions, ym[1], ym[2], tz)
      = getTransactionsByDateRange(transactions,
          <<ym[1], ym[2] + 1, 1>>, <<ym[1], ym[2] + 1, LastDay(ym[1], ym[2])>>)


\* ------------------------------------------- writes of the sheet (SpecRef)
\* the draft of the call names a category or an account that is not stored
Unresolved(draft) ==
  \/ ~ \E c \in categories : c.id = draft.categoryId
  \/ ~ \E a \in accounts : a.id = draft.accountId

\* C15: addTransaction writes no record when the draft's categoryId or
\* accountId does not resolve to a stored category or account
C15_UnresolvedDraftWritesNothing ==
  [][(/\ now' = now + 1
      /\ lastCall'.op = "addTransaction"
      /\ Unresolved(lastCall'.draft[1]))
     => transactions' = transactions]_vars


\* the step is a call updateTransaction(lastCall'.a, lastCall'.draft[1])
UpdateOp == now' = now + 1 /\ lastCall'.op = "updateTransaction"

\* C16: updateTransaction(id, patch) on a stored id overwrites the fields the
\* patch names, sets updatedAt to the time of the call, keeps every other
\* field (the id among them), every other record and the number of records,
\* and returns the record; on an id that is not stored it returns undefined
\* and leaves the store as it was
C16_UpdateOverwritesNamedFields ==
  [][UpdateOp =>
       LET id == lastCall'.a
           patch == lastCall'.draft[1]
           unknown == updateTransaction(transactions, nextId, patch, now)
       IN  /\ \E old \in transactions : \E new \in transactions' :
                /\ old.id = id /\ new.id = id
                /\ \A k \in DOMAIN patch : new[k] = patch[k]
                /\ new.updatedAt = now
                /\ \A k \in TxFields \ (DOMAIN patch \cup {"updatedAt"}) :
                     new[k] = old[k]
                /\ transactions' \ {new} = transactions \ {old}
                /\ lastResult'.list = Some(new)
           /\ Cardinality(transactions') = Cardinality(transactions)
           /\ unknown.result = None /\ unknown.store = transactions]_vars

\* an edit has rewritten a stored transaction: the call returned it, its
\* updatedAt is later than its createdAt
C16_Witness ==
  /\ lastCall.op = "updateTransaction"
  /\ \E tx \in transactions :
       /\ tx.id = lastCall.a /\ lastResult.list = Some(tx)
       /\ tx.updatedAt > tx.createdAt
       /\ tx.categoryId = lastCall.draft[1].categoryId


\* ------------------------------------------- default entities (SpecSet)
\* C14: exactly one account has isDefault = true and, for each type, exactly
\* one category has isDefault = true
C14_OneDefaultEach ==
  /\ Cardinality({a \in accounts : a.isDefault}) = 1
  /\ \A type \in Types :
       Cardinality({c \in categories : c.type = type /\ c.isDefault}) = 1


\* --------------------------------------------- installment dates (SpecRec)
\* the calendar date i periods after a date (for monthly and yearly the day of
\* the month is kept and a day the month does not have rolls over)
Advance(date, period, i) ==
  CASE period = "daily"   -> CivilFromDays(DaysFromCivil(date[1], date[2], date[3]) + i)
    [] period = "weekly"  -> CivilFromDays(DaysFromCivil(date[1], date[2], date[3]) + 7 * i)
    [] period = "monthly" -> CivilFromDays(MakeDay(date[1], date[2] - 1 + i, date[3]))
    [] period = "yearly"  -> CivilFromDays(MakeDay(date[1] + i, date[2] - 1, date[3]))

\* C17: installment i (0-based) of addRecurringTransaction is dated i periods
\* after the base date of the draft, at every time-zone offset of the host
C17_InstallmentDates ==
  [][(now' = now + 1 /\ lastCall'.op = "addRecurringTransaction") =>
       LET draft == lastCall'.draft[1]
           list == lastResult'.list
       IN  \A k \in 1..Len(list) :
             list[k].date = Advance(draft.date, draft.repeatConfig[1].period, k - 1)]_vars


\* ------------------------------------------- groups of installments (SpecDel)
\* C19: deletePendingRecurringTransactions(p) removes the transactions with
\* parentRepeatId = p and isCompleted = false and no other, changes none of
\* those it keeps, and returns the number it removed
C19_DeletesPendingOfGroup ==
  [][(now' = now + 1 /\ lastCall'.op = "deletePendingRecurringTransactions") =>
       LET p == lastCall'.a
           removed == transactions \ transactions'
       IN  /\ transactions' \subseteq transactions
           /\ removed = {tx \in transactions :
                           tx.parentRepeatId = Some(p) /\ ~tx.isCompleted}
           /\ lastResult'.count = Cardinality(removed)]_vars

\* the call has removed the pending installments of a group: a completed
\* installment of the group and a transaction outside the group are stored
C19_Witness ==
  /\ lastCall.op = "deletePendingRecurringTransactions"
  /\ lastResult.count >= 1
  /\ \E tx \in transactions : tx.parentRepeatId = Some(lastCall.a) /\ tx.isCompleted
  /\ \E tx \in transactions : tx.parentRepeatId # Some(lastCall.a)
  /\ ~ \E tx \in transactions : tx.parentRepeatId = Some(lastCall.a) /\ ~tx.isCompleted


\* --------------------------------------------------------- budgets (SpecBud)
\* C20: in every reachable state there is at most one budget record per
\* (categoryId, month) pair, also when two calls of setBudget overlap
C20_OneBudgetPerPair ==
  \A a, b \in budgets :
    (a.categoryId = b.categoryId /\ a.month = b.month) => a = b


\* ------------------------------------- deletes that stop and rerun (SpecStop)
\* the step belongs to a call of deleteCategory or deleteAccount: its start,
\* one of its writes, its last write, or the stop of the app in the middle
DeleteStep ==
  /\ lastCall'.op \in {"deleteCategory", "deleteAccount"}
  /\ running # {} \/ running' # {}

\* what the completed call leaves, from the stores db at time t
Completed(db, call, t) ==
  IF call.op = "deleteCategory" THEN deleteCategory(db, call.a, call.b, t)
  ELSE deleteAccount(db, call.a, call.b, t)

\* the stores without the times of the last writes
Timeless(db) ==
  [db EXCEPT !.transactions = {[tx EXCEPT !.updatedAt = 0] : tx \in db.transactions}]

\* C11: deleteCategory and deleteAccount remove the entity after every
\* matching transaction has been repointed. After each step of a call, a stop
\* included, the entity is stored if a transaction references it; each step
\* leaves unchanged what the completed call will leave (but for updatedAt, the
\* time of each write), and the last step leaves exactly that: a call started
\* again after a stop ends where the uninterrupted call ends
C11_DeleteStopsAndReruns ==
  [][DeleteStep =>
       LET call == lastCall'
           before == DB(transactions, categories, accounts, settings)
           after == DB(transactions', categories', accounts', settings')
           referenced == \E tx \in transactions' :
                           IF call.op = "deleteCategory" THEN tx.categoryId = call.a
                           ELSE tx.accountId = call.a
           stored == IF call.op = "deleteCategory"
                     THEN \E c \in categories' : c.id = call.a
                     ELSE \E a \in accounts' : a.id = call.a
       IN  /\ referenced => stored
           /\ Timeless(Completed(after, call, now')) = Timeless(Completed(before, call, now))
           /\ ~stored => after = Completed(before, call, now)]_vars

\* a deleteCategory that stopped after its first write and was started again
\* has completed: the category is gone, no transaction references it, and the
\* two transactions it moved were written at different times
C11_Witness ==
  /\ lastCall.op = "deleteCategory" /\ running = {}
  /\ ~ \E c \in categories : c.id = lastCall.a
  /\ ~ \E tx \in transactions : tx.categoryId = lastCall.a
  /\ \E t1, t2 \in transactions :
       /\ t1.categoryId = lastCall.b /\ t2.categoryId = lastCall.b
       /\ t1.updatedAt > t1.createdAt /\ t2.updatedAt > t1.updatedAt


\* -------------------------------------- writes of the generator (SpecFail)
\* C12: when the write of a copy fails during
\* generateFixedTransactionsForMonth(y, m), the copies written before stay in
\* the store and (y, m) is not in processedFixedMonths; a step that puts
\* (y, m) in processedFixedMonths comes after the whole loop: every fixed
\* transaction of the call has been copied
C12_FailedWriteLeavesMonthUnprocessed ==
  [][\A job \in running :
       /\ (job.list # << >> /\ running' = {}) =>
            /\ transactions' = transactions
            /\ Len(lastResult'.list) = job.createdCount
            /\ \A k \in 1..job.createdCount : lastResult'.list[k] \in transactions'
            /\ ~isMonthProcessed(settings', job.year, job.month)
       /\ (/\ ~isMonthProcessed(settings, job.year, job.month)
           /\ isMonthProcessed(settings', job.year, job.month)) =>
            /\ job.list = << >>
            /\ job.createdCount =
                 Cardinality(getFixedTransactionsFromMonth(transactions,
                   PreviousMonth(job.year, job.month)[1],
                   PreviousMonth(job.year, job.month)[2] - 1, tz))]_vars

\* the second write of a call has failed: the first copy is stored, the
\* month of the call is not processed
C12_Witness ==
  /\ lastCall.op = "generateFixedTransactionsForMonth" /\ running = {}
  /\ lastResult.count = 1
  /\ lastResult.list[1] \in transactions
  /\ Cardinality(previousFixed) = 2
  /\ ~isMonthProcessed(settings, lastCall.a, lastCall.b)


\* ---------------------------------- installments written again (SpecRetry)
\* the installments of the purchase of lastCall': what its attempts, the
\* first at time lastCall'.b, have stored
Purchase ==
  {tx \in transactions' :
     /\ tx.createdAt >= lastCall'.b
     /\ tx.description = lastCall'.draft[1].description
     /\ tx.repeatTotal = Some(lastCall'.draft[1].repeatConfig[1].times)}

\* C13: when addRecurringTransaction with times = N has failed after writing
\* k < N installments and the same call is run again, the store ends with
\* exactly N installments of the purchase, no installment twice
C13_RetryWritesWhatIsMissing ==
  [][(/\ \E job \in running : job.op = "addRecurringTransaction" /\ job.list = << >>
      /\ running' = {}
      /\ lastCall'.a >= 1) =>
       /\ Cardinality(Purchase) = lastCall'.draft[1].repeatConfig[1].times
       /\ \A t1, t2 \in Purchase : t1.repeatIndex = t2.repeatIndex => t1 = t2]_vars


\* ------------------------------------------------- copies of budgets (SpecBud)
\* the step is a call copyBudgetsToMonth(lastCall'.a, lastCall'.b, next month)
CopyOp == now' = now + 1 /\ lastCall'.op = "copyBudgetsToMonth"

\* C21: after copyBudgetsToMonth(from, to), for every budget of the source
\* month the target month holds exactly one budget of the same category, with
\* the source's amount and currency; the budgets of the source month and the
\* target month's budgets of other categories are unchanged
C21_CopyUpsertsEachBudget ==
  [][CopyOp =>
       LET fromYear == lastCall'.a
           fromMonth == lastCall'.b
           toYear == fromYear + (fromMonth + 1) \div 12
           toMonth == (fromMonth + 1) % 12
           source == getBudgetsByMonth(budgets, fromYear, fromMonth)
           target == getBudgetsByMonth(budgets, toYear, toMonth)
           target2 == getBudgetsByMonth(budgets', toYear, toMonth)
       IN  /\ \A b \in source :
                LET same == {c \in target2 : c.categoryId = b.categoryId}
                IN  /\ Cardinality(same) = 1
                    /\ \A c \in same : c.amount = b.amount /\ c.currency = b.currency
           /\ getBudgetsByMonth(budgets', fromYear, fromMonth) = source
           /\ {c \in target2 : \A b \in source : b.categoryId # c.categoryId}
                = {c \in target : \A b \in source : b.categoryId # c.categoryId}]_vars

\* ----------------------------------------- backups (SpecBak, SpecRestore)
\* the files SettingsPage can be given: the one it exported, another
\* installation's
Files == {BackupFile} \cup (IF exported = None THEN {} ELSE {exported[1]})
Records(list) == {list[i] : i \in DOMAIN list}
\* the records of a file that are absent from the stores, by the key of
\* their kind
AbsentCategories(file) ==
  {c \in Records(file.categories) :
     \A e \in categories : <<e.type, e.name>> # <<c.type, c.name>>}
AbsentAccounts(file) ==
  {a \in Records(file.accounts) : \A e \in accounts : e.name # a.name}
AbsentTransactions(file) ==
  {t \in Records(file.transactions) : \A e \in transactions : e.id # t.id}

\* C22: an import inserts exactly the records of the file that are absent from
\* the stores (categories by type and name, accounts by name, transactions by
\* id), changes no record that was stored, and importing the same file again
\* changes nothing
C22_ImportInsertsAbsentOnly ==
  [][\A file \in Files : handleImportData(file) =>
       /\ categories' = categories \cup AbsentCategories(file)
       /\ accounts' = accounts \cup AbsentAccounts(file)
       /\ transactions' = transactions \cup AbsentTransactions(file)
       /\ importCategories(categories', file.categories,
                           {<<c.type, c.name>> : c \in categories'}) = categories'
       /\ importAccounts(accounts', file.accounts,
                         {a.name : a \in accounts'}) = accounts'
       /\ importTransactions(transactions', file.transactions,
                             {t.id : t \in transactions'}) = transactions']_vars

Ids(store) == {r.id : r \in store}
\* the stores as initializeDB leaves them on a first run or after
\* deleteAllData: the seeded account and categories, no transaction
Fresh ==
  /\ transactions = {}
  /\ \E id0 \in 1..nextId : \E t \in 0..now :
       LET db == initializeDB(DB({}, {}, {}, None), id0, t)
       IN  categories = db.categories /\ accounts = db.accounts

C28_ImportedReferencesResolve ==
  [][\A file \in Files : handleImportData(file) =>
       \A t \in transactions' :
         /\ \E c \in categories' : c.id = t.categoryId
         /\ \E a \in accounts' : a.id = t.accountId]_vars

\* C29: with the transactions of the exported file back in the store,
\* generateFixedTransactionsForMonth(y, m) for a month that was processed when
\* the file was written leaves month (y, m) holding the transactions it held
\* in the file
C29_RestoreDoesNotDuplicateFixed ==
  [][(/\ exported # None
      /\ transactions = Records(exported[1].transactions)
      /\ DashboardLoadData
      /\ isMonthProcessed(exported[1].settings, lastCall'.a, lastCall'.b))
       => getTransactionsByMonth(transactions', lastCall'.a, lastCall'.b, tz)
            = getTransactionsByMonth(Records(exported[1].transactions),
                                     lastCall'.a, lastCall'.b, tz)]_vars

\* ------------------------------------------------ deleteAllData (SpecBud)
\* C30: deleteAllData leaves the first-run state: no transaction, the seeded
\* default account and categories alone, settings with an empty
\* processedFixedMonths, and no budget
C30_DeleteAllDataLeavesFirstRun ==
  [][handleFinalDelete =>
       /\ Fresh'
       /\ settings' # None /\ ProcessedMonths(settings') = << >>
       /\ budgets' = {}]_vars

\* ---------------------------------------------------- first run (SpecInit)
\* what one seeding leaves: the settings, one default account, one category of
\* each default (type, name)
SeededOnce ==
  /\ settings # None
  /\ Cardinality({a \in accounts : a.isDefault}) = 1
  /\ \A seed \in Records(defaultIncomeCategories \o defaultExpenseCategories) :
       Cardinality({c \in categories : c.type = seed.type /\ c.name = seed.name}) = 1

\* C27: once a call of initializeDB has returned and none is in progress, the
\* store holds the settings, exactly one default account and exactly one copy
\* of each default category, whether calls overlapped or stopped partway
C27_SeedsExactlyOnce ==
  (pc # "boot" /\ running = {}) => SeededOnce

\* ------------------------------------- overlapping generators (SpecOverlap)
\* the months after the current one that the picker reaches; the sheet saves
\* in the current month, so what they hold are copies
LaterMonths ==
  {<<Today[1] + ((Today[2] - 1 + k) \div 12), ((Today[2] - 1 + k) % 12) + 1>> :
     k \in 1..MaxMonthsAhead}
FixedOf(ym) == {t \in transactions : t.isFixed /\ MonthOf(t.date) = ym}

\* C24: each fixed transaction of the previous month is copied into a month
\* at most once, also when two calls of generateFixedTransactionsForMonth for
\* that month overlap: the month holds no more copies of a fixed transaction
\* than the previous month holds transactions like it
C24_OverlapCopiesOnce ==
  \A ym \in LaterMonths : \A t \in FixedOf(ym) :
    Cardinality({c \in FixedOf(ym) : Copied(c) = Copied(t)})
      <= Cardinality({p \in FixedOf(PreviousMonth(ym[1], ym[2] - 1)) :
                        Copied(p) = Copied(t)})

\* ------------------------------------------ the order of the views (SpecGen)
HasCopy(ym, t) ==
  \E c \in transactions : c.isFixed /\ MonthOf(c.date) = ym /\ Copied(c) = Copied(t)
NextMonth(ym) == IF ym[2] = 12 THEN <<ym[1] + 1, 1>> ELSE <<ym[1], ym[2] + 1>>

\* C25: once generateFixedTransactionsForMonth has run for a month X, X holds
\* a copy of every fixed transaction of the month before it; and when it has
\* run for the two months after a fixed transaction's month M, in either
\* order, M+1 and M+2 both hold a copy
C25_RecreatedInEveryLaterMonth ==
  (lastCall.op = GenerateOp /\ pc = "idle") =>
    LET X == <<lastCall.a, lastCall.b + 1>>
        before == PreviousMonth(lastCall.a, lastCall.b)
    IN  \A t \in transactions : t.isFixed =>
          /\ MonthOf(t.date) = before => HasCopy(X, t)
          /\ (MonthOf(t.date) = before
                /\ isMonthProcessed(settings, NextMonth(X)[1], NextMonth(X)[2] - 1))
               => HasCopy(NextMonth(X), t)
          /\ (NextMonth(NextMonth(MonthOf(t.date))) = X
                /\ isMonthProcessed(settings, before[1], before[2] - 1))
               => HasCopy(before, t) /\ HasCopy(X, t)

\* --------------------------------------------- deletes racing (SpecRace)
\* a write of deleteCategory's loop, or its last step
ScanStep ==
  \E job \in running : deleteCategoryPut(job) \/ deleteCategoryDelete(job)

\* C26: the steps of deleteCategory do not undo another write: a step stores
\* no transaction that was not stored before it (one removed by
\* deleteTransaction stays removed), and it changes nothing of a stored
\* transaction but categoryId and updatedAt (what updateTransaction wrote
\* stays)
C26_ScanKeepsOtherWrites ==
  [][ScanStep =>
       /\ Ids(transactions') \subseteq Ids(transactions)
       /\ \A t \in transactions : \A u \in transactions' :
            u.id = t.id =>
              [u EXCEPT !.categoryId = t.categoryId, !.updatedAt = t.updatedAt] = t]_vars

====
